---- MODULE Spec2Model ----
(***************************************************************************)
(* SnakeBridge: the value codec (snakebridge_types.py) and the reference   *)
(* registry (snakebridge_adapter.py), as state machines.                   *)
(*                                                                         *)
(* Python values are tagged tuples <<tag, payload...>>.  A str is a        *)
(* sequence of tokens (a token is one character, or one fixed literal      *)
(* such as "__type__" that is never split).  A value whose identity        *)
(* matters (a custom object, a generator, a list that contains itself)     *)
(* lives in Heap and is denoted by a pointer <<"ptr", address>>.           *)
(***************************************************************************)
EXTENDS Integers, Sequences, FiniteSets, TLC

VARIABLES
    registry,   \* _instance_registry: entries in dict insertion order
    now,        \* time.time()
    nextId,     \* number of ids uuid.uuid4() has handed out
    cfg,        \* environment: SNAKEBRIDGE_REF_TTL_SECONDS, SNAKEBRIDGE_REF_MAX,
                \* SNAKEBRIDGE_ALLOW_LEGACY_PROTOCOL
    pc,         \* position of the sequential caller
    input,      \* the value under encode / decode
    session,    \* the session id of the call
    wire,       \* what encode / encode_result returned (or raised)
    decoded,    \* what decode returned (or raised)
    ret,        \* what the last registry operation returned (or raised)
    lastOp,     \* the name of the last registry operation
    storeRun,   \* how many stores in a row the last operations were
    tool,       \* execute_tool's tool_name
    trace,      \* what the execute_tool call has done so far, in order
    thr,        \* per thread: the operation in progress and its locals
    registry_lock, \* _registry_lock (an RLock): its owner and its hold count
    cb,         \* a decoded callback stub and the invocation of it in progress
    mgr,        \* an InstanceManager: its instances, its lock, its threads' locals
    stream,     \* a stream handed to a caller: its marker, the iterator's position, the pulls
    client      \* a BridgeClient call: the ambient correlation id, the RPCs, the generator

vars == <<registry, now, nextId, cfg, pc, input, session, wire, decoded,
          ret, lastOp, storeRun, tool, trace, thr, registry_lock, cb, mgr, stream, client>>

codecVars == <<pc, input, session, wire, decoded>>
tableVars == <<ret, lastOp, storeRun>>
raceVars == <<thr, registry_lock>>
callVars == <<tool, trace>>
extVars == <<cb, mgr, stream, client>>

----
\* Bounds of the model.
RecursionLimit == 12   \* frames left before Python raises RecursionError
MaxTtl == 1             \* the TTL explored when one is configured
MaxSize == 1            \* the table size explored when one is configured
MaxIds == MaxSize + 1   \* ids uuid4 may hand out in one behaviour
MaxTime == MaxTtl + 2   \* the clock stops advancing here
MaxVersion == 2         \* largest protocol version number a caller sends
MaxInstances == 2       \* the largest max_instances an InstanceManager is given
MaxPulls == 4           \* stream_next calls made on one stream
MaxChunks == 3          \* chunks a server stream sends
MaxCalls == 2           \* calls a BridgeClient makes in one behaviour
FarAhead == 1000        \* how far ahead of the clock a call is looked at

\* Program constants.
SCHEMA_VERSION == 1
REF_SCHEMA_VERSION == 1
DEFAULT_REF_TTL_SECONDS == 0
DEFAULT_REF_MAX_SIZE == 10000
PROTOCOL_VERSION == 1
MIN_SUPPORTED_VERSION == 1

----
\* Values.
NoneV == <<"none">>
BoolV(b) == <<"bool", b>>
IntV(n) == <<"int", n>>
FloatV(n) == <<"float", "fin", n>>
Inf == <<"float", "inf", 0>>
NegInf == <<"float", "ninf", 0>>
NaN == <<"float", "nan", 0>>
StrV(s) == <<"str", s>>
Lit(t) == <<"str", <<t>>>>
BytesV(bs) == <<"bytes", bs>>
AtomV(s) == <<"atom", s>>
TupleV(xs) == <<"tuple", xs>>
FrozenSetV(xs) == <<"frozenset", xs>>
SetV(xs) == <<"set", xs>>
ListV(xs) == <<"list", xs>>
DictV(pairs) == <<"dict", pairs>>
ComplexV(re, im) == <<"complex", re, im>>
DateV(y, m, d) == <<"date", y, m, d>>
TimeV(h, mi, s, us, aware, off) == <<"time", h, mi, s, us, aware, off>>
DateTimeV(y, m, d, h, mi, s, us, aware, off) == <<"datetime", y, m, d, h, mi, s, us, aware, off>>
Ptr(a) == <<"ptr", a>>
Callable(id, arity) == <<"callable", id, arity>>
Raise(kind) == <<"raise", kind>>

IsRaise(x) == x[1] = "raise"
IsDict(x) == x[1] = "dict"
IsStr(x) == x[1] = "str"

\* Python truthiness of a value (bool(x)).
Truthy(v) ==
    CASE v[1] = "none" -> FALSE
      [] v[1] = "bool" -> v[2]
      [] v[1] = "int" -> v[2] # 0
      [] v[1] = "float" -> ~(v[2] = "fin" /\ v[3] = 0)
      [] v[1] \in {"str", "bytes", "tuple", "frozenset", "set", "list", "dict"} -> Len(v[2]) > 0
      [] OTHER -> TRUE

\* a or b
Or(a, b) == IF Truthy(a) THEN a ELSE b

\* d.get(key, default) on the pairs of a dict
RECURSIVE PairsGet(_, _, _)
PairsGet(pairs, key, default) ==
    IF pairs = <<>> THEN default
    ELSE IF pairs[1][1] = key THEN pairs[1][2]
    ELSE PairsGet(Tail(pairs), key, default)

DictGet(d, key) == PairsGet(d[2], Lit(key), NoneV)
DictHas(d, key) == \E i \in 1..Len(d[2]) : d[2][i][1] = Lit(key)

\* d[key] = value on the pairs of a dict: in place if the key exists, else appended
PairsSet(pairs, key, value) ==
    IF \E i \in 1..Len(pairs) : pairs[i][1] = key
    THEN [i \in 1..Len(pairs) |-> IF pairs[i][1] = key THEN <<key, value>> ELSE pairs[i]]
    ELSE Append(pairs, <<key, value>>)

_tag(type_tag, payload) ==
    DictV(PairsSet(PairsSet(payload, Lit("__type__"), Lit(type_tag)),
                  Lit("__schema__"), IntV(SCHEMA_VERSION)))

----
\* base64.b64encode(...).decode("ascii") and base64.b64decode: bytes are
\* sequences of 0..255, the text a sequence of one-character tokens.
B64Chars ==
    <<"A","B","C","D","E","F","G","H","I","J","K","L","M","N","O","P",
      "Q","R","S","T","U","V","W","X","Y","Z","a","b","c","d","e","f",
      "g","h","i","j","k","l","m","n","o","p","q","r","s","t","u","v",
      "w","x","y","z","0","1","2","3","4","5","6","7","8","9","+","/">>

B64Char(n) == B64Chars[n + 1]
B64Val(c) == (CHOOSE i \in 1..64 : B64Chars[i] = c) - 1
IsB64Char(c) == \E i \in 1..64 : B64Chars[i] = c

RECURSIVE b64encode(_)
b64encode(bs) ==
    IF Len(bs) = 0 THEN <<>>
    ELSE IF Len(bs) = 1 THEN
        <<B64Char(bs[1] \div 4), B64Char((bs[1] % 4) * 16), "=", "=">>
    ELSE IF Len(bs) = 2 THEN
        <<B64Char(bs[1] \div 4), B64Char((bs[1] % 4) * 16 + bs[2] \div 16),
          B64Char((bs[2] % 16) * 4), "=">>
    ELSE
        <<B64Char(bs[1] \div 4), B64Char((bs[1] % 4) * 16 + bs[2] \div 16),
          B64Char((bs[2] % 16) * 4 + bs[3] \div 64), B64Char(bs[3] % 64)>>
        \o b64encode(SubSeq(bs, 4, Len(bs)))

\* The text up to its padding, without the characters b64decode discards
\* (validate=False drops everything outside the alphabet).
RECURSIVE B64Data(_)
B64Data(cs) ==
    IF cs = <<>> \/ cs[1] = "=" THEN <<>>
    ELSE IF IsB64Char(cs[1]) THEN <<cs[1]>> \o B64Data(Tail(cs))
    ELSE B64Data(Tail(cs))

B64PadCount(cs) == Cardinality({i \in 1..Len(cs) : cs[i] = "="})

RECURSIVE B64Groups(_)
B64Groups(ds) ==
    IF Len(ds) = 0 THEN <<>>
    ELSE IF Len(ds) = 2 THEN
        <<B64Val(ds[1]) * 4 + B64Val(ds[2]) \div 16>>
    ELSE IF Len(ds) = 3 THEN
        <<B64Val(ds[1]) * 4 + B64Val(ds[2]) \div 16,
          (B64Val(ds[2]) % 16) * 16 + B64Val(ds[3]) \div 4>>
    ELSE
        <<B64Val(ds[1]) * 4 + B64Val(ds[2]) \div 16,
          (B64Val(ds[2]) % 16) * 16 + B64Val(ds[3]) \div 4,
          (B64Val(ds[3]) % 4) * 64 + B64Val(ds[4])>>
        \o B64Groups(SubSeq(ds, 5, Len(ds)))

b64decode(cs) ==
    LET ds == B64Data(cs) IN
    IF Len(ds) % 4 = 1 \/ (Len(ds) + B64PadCount(cs)) % 4 # 0
    THEN Raise("binascii.Error")
    ELSE BytesV(B64Groups(ds))

----
\* isoformat() and fromisoformat() of date, time and datetime.
Digits == <<"0","1","2","3","4","5","6","7","8","9">>
DigitChar(d) == Digits[d + 1]
IsDigit(c) == \E i \in 1..10 : Digits[i] = c
DigitVal(c) == (CHOOSE i \in 1..10 : Digits[i] = c) - 1

RECURSIVE Pow10(_)
Pow10(k) == IF k = 0 THEN 1 ELSE 10 * Pow10(k - 1)

\* "%0<width>d" % n
Pad(n, width) == [i \in 1..width |-> DigitChar((n \div Pow10(width - i)) % 10)]

AllDigits(cs) == \A i \in 1..Len(cs) : IsDigit(cs[i])

RECURSIVE ParseNum(_)
ParseNum(cs) ==
    IF cs = <<>> THEN 0
    ELSE ParseNum(SubSeq(cs, 1, Len(cs) - 1)) * 10 + DigitVal(cs[Len(cs)])

date_isoformat(y, m, d) == Pad(y, 4) \o <<"-">> \o Pad(m, 2) \o <<"-">> \o Pad(d, 2)

\* HH:MM:SS, then .ffffff when microsecond is not 0, then +HH:MM when aware
time_isoformat(h, mi, s, us, aware, off) ==
    Pad(h, 2) \o <<":">> \o Pad(mi, 2) \o <<":">> \o Pad(s, 2)
    \o (IF us # 0 THEN <<".">> \o Pad(us, 6) ELSE <<>>)
    \o (IF aware THEN <<"+">> \o Pad(off \div 60, 2) \o <<":">> \o Pad(off % 60, 2) ELSE <<>>)

isoformat(v) ==
    CASE v[1] = "date" -> date_isoformat(v[2], v[3], v[4])
      [] v[1] = "time" -> time_isoformat(v[2], v[3], v[4], v[5], v[6], v[7])
      [] v[1] = "datetime" ->
            date_isoformat(v[2], v[3], v[4]) \o <<"T">>
            \o time_isoformat(v[5], v[6], v[7], v[8], v[9], v[10])

DateWellFormed(cs) ==
    /\ Len(cs) = 10
    /\ cs[5] = "-" /\ cs[8] = "-"
    /\ AllDigits(SubSeq(cs, 1, 4)) /\ AllDigits(SubSeq(cs, 6, 7)) /\ AllDigits(SubSeq(cs, 9, 10))
    /\ ParseNum(SubSeq(cs, 6, 7)) \in 1..12
    /\ ParseNum(SubSeq(cs, 9, 10)) \in 1..31

date_fromisoformat(cs) ==
    IF DateWellFormed(cs)
    THEN DateV(ParseNum(SubSeq(cs, 1, 4)), ParseNum(SubSeq(cs, 6, 7)), ParseNum(SubSeq(cs, 9, 10)))
    ELSE Raise("ValueError")

\* The fields of a time string: <<"fields", h, mi, s, us, aware, off>>, or a raise.
ClockWellFormed(cs) ==
    /\ Len(cs) = 8
    /\ cs[3] = ":" /\ cs[6] = ":"
    /\ AllDigits(SubSeq(cs, 1, 2)) /\ AllDigits(SubSeq(cs, 4, 5)) /\ AllDigits(SubSeq(cs, 7, 8))
    /\ ParseNum(SubSeq(cs, 1, 2)) \in 0..23
    /\ ParseNum(SubSeq(cs, 4, 5)) \in 0..59
    /\ ParseNum(SubSeq(cs, 7, 8)) \in 0..59

OffsetWellFormed(cs) ==
    /\ Len(cs) = 6
    /\ cs[1] = "+" /\ cs[4] = ":"
    /\ AllDigits(SubSeq(cs, 2, 3)) /\ AllDigits(SubSeq(cs, 5, 6))

MicrosWellFormed(cs) == Len(cs) = 7 /\ cs[1] = "." /\ AllDigits(SubSeq(cs, 2, 7))

TimeFields(cs) ==
    LET hasUs == Len(cs) >= 9 /\ cs[9] = "."
        usEnd == IF hasUs THEN 15 ELSE 8
        usPart == SubSeq(cs, 9, usEnd)
        offPart == SubSeq(cs, usEnd + 1, Len(cs))
        aware == Len(offPart) > 0
    IN  IF /\ Len(cs) >= 8
           /\ ClockWellFormed(SubSeq(cs, 1, 8))
           /\ (hasUs => MicrosWellFormed(usPart))
           /\ (aware => OffsetWellFormed(offPart))
        THEN <<"fields",
               ParseNum(SubSeq(cs, 1, 2)), ParseNum(SubSeq(cs, 4, 5)), ParseNum(SubSeq(cs, 7, 8)),
               IF hasUs THEN ParseNum(SubSeq(usPart, 2, 7)) ELSE 0,
               aware,
               IF aware THEN ParseNum(SubSeq(offPart, 2, 3)) * 60 + ParseNum(SubSeq(offPart, 5, 6)) ELSE 0>>
        ELSE Raise("ValueError")

time_fromisoformat(cs) ==
    LET f == TimeFields(cs) IN
    IF IsRaise(f) THEN f ELSE TimeV(f[2], f[3], f[4], f[5], f[6], f[7])

datetime_fromisoformat(cs) ==
    IF Len(cs) < 10 THEN Raise("ValueError")
    ELSE LET d == date_fromisoformat(SubSeq(cs, 1, 10)) IN
         IF IsRaise(d) THEN d
         ELSE IF Len(cs) = 10 THEN DateTimeV(d[2], d[3], d[4], 0, 0, 0, 0, FALSE, 0)
         ELSE LET f == TimeFields(SubSeq(cs, 12, Len(cs))) IN
              IF IsRaise(f) THEN f
              ELSE DateTimeV(d[2], d[3], d[4], f[2], f[3], f[4], f[5], f[6], f[7])

----
\* The heap: the objects whose identity the inputs share.
DeepLevels == RecursionLimit + 2
DeepBase == Len(<<"obj1", "obj2", "hashable", "generator", "async_generator",
                  "iterator", "file", "list_with_obj", "dict_with_obj",
                  "list_same_obj_twice", "list_two_objs", "self_list",
                  "dict_a", "dict_b", "obj_then_deep", "plain_list">>) + 1
HeapSize == DeepBase + DeepLevels
\* The n-th object a call creates (cls(*args)) lives past the named ones.
Instance(n) == <<"ptr", HeapSize + 1 + n>>

Obj1 == Ptr(1)
Obj2 == Ptr(2)
Hashable == Ptr(3)
Gen == Ptr(4)
AsyncGen == Ptr(5)
Iter == Ptr(6)
File == Ptr(7)
ListWithObj == Ptr(8)
DictWithObj == Ptr(9)
ListSameObjTwice == Ptr(10)
ListTwoObjs == Ptr(11)
SelfList == Ptr(12)
DictA == Ptr(13)
DictB == Ptr(14)
ObjThenDeep == Ptr(15)
PlainList == Ptr(16)
Deep == Ptr(DeepBase)

Heap ==
    [a \in 1..(HeapSize + MaxIds) |->
        CASE a = 1 -> <<"object", <<"CustomObject">>, <<"test_module">>>>
          [] a = 2 -> <<"object", <<"CustomObject">>, <<"test_module">>>>
          [] a = 3 -> <<"object", <<"HashableCustom">>, <<"test_module">>>>
          [] a = 4 -> <<"generator", <<IntV(0), IntV(1)>>>>
          [] a = 5 -> <<"async_generator", <<IntV(0), IntV(1)>>>>
          [] a = 6 -> <<"iterator", <<IntV(0), IntV(1)>>>>
          [] a = 7 -> <<"file">>
          [] a = 8 -> ListV(<<IntV(1), Obj1, IntV(3)>>)
          [] a = 9 -> DictV(<< <<Lit("a"), IntV(1)>>, <<Lit("b"), Obj1>> >>)
          [] a = 10 -> ListV(<<Obj1, Lit("separator"), Obj1>>)
          [] a = 11 -> ListV(<<Obj1, Obj2>>)
          [] a = 12 -> ListV(<<IntV(1), IntV(2), SelfList>>)
          [] a = 13 -> DictV(<< <<Lit("name"), Lit("a")>>, <<Lit("other"), DictB>> >>)
          [] a = 14 -> DictV(<< <<Lit("name"), Lit("b")>>, <<Lit("other"), DictA>> >>)
          [] a = 15 -> ListV(<<Obj1, Deep>>)
          [] a = 16 -> ListV(<<IntV(1), IntV(2)>>)
          [] a >= DeepBase /\ a < HeapSize -> ListV(<<IntV(1), Ptr(a + 1)>>)
          [] a > HeapSize -> <<"object", <<"CustomObject">>, <<"test_module">>>>
          [] OTHER -> ListV(<<IntV(1)>>)]

IsPtr(v) == v[1] = "ptr"
Deref(v) == IF IsPtr(v) THEN Heap[v[2]] ELSE v

\* type(value).__name__ and type(value).__module__
TypeName(value) ==
    LET v == Deref(value) IN
    CASE v[1] = "none" -> <<"NoneType">>
      [] v[1] = "object" -> v[2]
      [] v[1] = "atom" -> <<"Atom">>
      [] v[1] = "iterator" -> <<"list_iterator">>
      [] v[1] = "file" -> <<"TextIOWrapper">>
      [] v[1] = "callable" -> <<"function">>
      [] OTHER -> <<v[1]>>

TypeModule(value) ==
    LET v == Deref(value) IN
    CASE v[1] = "object" -> v[3]
      [] v[1] = "atom" -> <<"snakebridge_types">>
      [] v[1] = "file" -> <<"_io">>
      [] v[1] \in {"datetime", "date", "time"} -> <<"datetime">>
      [] OTHER -> <<"builtins">>

----
\* sorted(value, key=lambda x: (type(x).__name__, str(x))): str compares by
\* code point, so the type names are ranked in code-point order and str(x) is
\* compared character by character.
TypeNamesInOrder ==
    <<"Atom", "CustomObject", "HashableCustom", "NoneType", "bool", "bytes",
      "complex", "date", "datetime", "float", "frozenset", "function",
      "generator", "int", "list_iterator", "str", "time", "tuple">>

TypeRank(value) ==
    CHOOSE i \in 1..Len(TypeNamesInOrder) : <<TypeNamesInOrder[i]>> = TypeName(value)

CharsInOrder ==
    <<" ", "'", "(", ")", "+", ",", "-", ".", "/",
      "0", "1", "2", "3", "4", "5", "6", "7", "8", "9", ":", "<", "=", ">",
      "A", "B", "C", "D", "E", "F", "G", "H", "I", "J", "K", "L", "M", "N", "O",
      "P", "Q", "R", "S", "T", "U", "V", "W", "X", "Y", "Z", "\\", "_",
      "a", "b", "c", "d", "e", "f", "g", "h", "i", "j", "k", "l", "m", "n", "o",
      "p", "q", "r", "s", "t", "u", "v", "w", "x", "y", "z">>

Ord(c) == CHOOSE i \in 1..Len(CharsInOrder) : CharsInOrder[i] = c

RECURSIVE NatChars(_)
NatChars(n) == IF n < 10 THEN <<DigitChar(n)>> ELSE NatChars(n \div 10) \o <<DigitChar(n % 10)>>

IntChars(n) == IF n < 0 THEN <<"-">> \o NatChars(0 - n) ELSE NatChars(n)

HexDigits == <<"0","1","2","3","4","5","6","7","8","9","a","b","c","d","e","f">>

RECURSIVE BytesEscaped(_)
BytesEscaped(bs) ==
    IF bs = <<>> THEN <<>>
    ELSE <<"\\", "x", HexDigits[(bs[1] \div 16) + 1], HexDigits[(bs[1] % 16) + 1]>> \o BytesEscaped(Tail(bs))

\* str(x), for the kinds of element the modelled sets hold.  The default
\* str of an object is its class and its address; objects of one class differ
\* in the address only, which is all the comparison reads.  The bytes the
\* model puts in sets are non-printable, which repr writes as \xhh.
StrOf(value) ==
    LET v == Deref(value) IN
    CASE v[1] = "none" -> <<"N", "o", "n", "e">>
      [] v[1] = "bool" -> IF v[2] THEN <<"T", "r", "u", "e">> ELSE <<"F", "a", "l", "s", "e">>
      [] v[1] = "int" -> IntChars(v[2])
      [] v[1] = "float" ->
            (CASE v[2] = "fin" -> IntChars(v[3]) \o <<".", "0">>
               [] v[2] = "inf" -> <<"i", "n", "f">>
               [] v[2] = "ninf" -> <<"-", "i", "n", "f">>
               [] v[2] = "nan" -> <<"n", "a", "n">>)
      [] v[1] = "str" -> v[2]
      [] v[1] = "bytes" -> <<"b", "'">> \o BytesEscaped(v[2]) \o <<"'">>
      [] v[1] = "object" -> <<"0", "x">> \o NatChars(value[2])

RECURSIVE CharsLess(_, _)
CharsLess(a, b) ==
    IF b = <<>> THEN FALSE
    ELSE IF a = <<>> THEN TRUE
    ELSE IF a[1] = b[1] THEN CharsLess(Tail(a), Tail(b))
    ELSE Ord(a[1]) < Ord(b[1])

SortKeyLess(x, y) ==
    \/ TypeRank(x) < TypeRank(y)
    \/ TypeRank(x) = TypeRank(y) /\ CharsLess(StrOf(x), StrOf(y))

\* sorted() is stable: x goes after every element whose key is not greater
RECURSIVE InsertSorted(_, _)
InsertSorted(xs, x) ==
    IF xs = <<>> THEN <<x>>
    ELSE IF SortKeyLess(x, xs[1]) THEN <<x>> \o xs
    ELSE <<xs[1]>> \o InsertSorted(Tail(xs), x)

RECURSIVE SortedByKey(_)
SortedByKey(xs) ==
    IF xs = <<>> THEN <<>>
    ELSE InsertSorted(SortedByKey(SubSeq(xs, 1, Len(xs) - 1)), xs[Len(xs)])

----
\* snakebridge_types.encode.  `depth` counts the Python frames in use; a call
\* that would exceed RecursionLimit raises RecursionError.
NeedsRefMarker(type_name, module) ==
    DictV(<< <<Lit("__needs_ref__"), BoolV(TRUE)>>,
             <<Lit("__type_name__"), StrV(type_name)>>,
             <<Lit("__module__"), StrV(module)>> >>)

ContainerNeedsRef(type_name, reason) ==
    DictV(<< <<Lit("__needs_ref__"), BoolV(TRUE)>>,
             <<Lit("__type_name__"), Lit(type_name)>>,
             <<Lit("__module__"), Lit("builtins")>>,
             <<Lit("__reason__"), StrV(reason)>> >>)

IsNeedsRef(enc) == IsDict(enc) /\ Truthy(DictGet(enc, "__needs_ref__"))
IsNeedsStreamRef(enc) == IsDict(enc) /\ Truthy(DictGet(enc, "__needs_stream_ref__"))

\* f"{x}" of what enc.get(...) returned
Formatted(v) == IF IsStr(v) THEN v[2] ELSE StrOf(v)

_encode_float(value) ==
    IF value[2] \in {"inf", "ninf"}
    THEN _tag("special_float",
              << <<Lit("value"), IF value[2] = "inf" THEN Lit("infinity") ELSE Lit("neg_infinity")>> >>)
    ELSE IF value[2] = "nan"
    THEN _tag("special_float", << <<Lit("value"), Lit("nan")>> >>)
    ELSE value

_is_generator_or_iterator(value) ==
    LET v == Deref(value) IN
    CASE v[1] = "generator" -> TRUE
      [] v[1] = "async_generator" -> TRUE
      [] v[1] = "iterator" -> TRUE
      [] v[1] = "file" -> FALSE
      [] OTHER -> FALSE

_get_stream_type(value) ==
    LET v == Deref(value) IN
    CASE v[1] = "generator" -> "generator"
      [] v[1] = "async_generator" -> "async_generator"
      [] OTHER -> "iterator"

RECURSIVE encode(_, _)
RECURSIVE EncodeItems(_, _, _)
RECURSIVE EncodeStringKeyPairs(_, _, _)
RECURSIVE EncodeTaggedPairs(_, _, _)

\* The body of `for item in ...: enc = encode(item); ...; elements.append(enc)`:
\* <<"items", encoded>> when the loop runs to its end, else <<"stop", enc>>
\* with the enc that ended it (a marker, or the exception raised).
EncodeItems(items, depth, acc) ==
    IF items = <<>> THEN <<"items", acc>>
    ELSE LET enc == encode(Head(items), depth) IN
         IF IsRaise(enc) \/ IsNeedsRef(enc) \/ IsNeedsStreamRef(enc)
         THEN <<"stop", enc>>
         ELSE EncodeItems(Tail(items), depth, Append(acc, enc))

ItemStopped(type_name, enc) ==
    IF IsRaise(enc) THEN enc
    ELSE IF IsNeedsRef(enc)
    THEN ContainerNeedsRef(type_name,
            <<"contains unencodable item of type ">> \o Formatted(DictGet(enc, "__type_name__")))
    ELSE ContainerNeedsRef(type_name, <<"contains iterator/generator">>)

_encode_tuple(value, depth) ==
    IF depth > RecursionLimit THEN Raise("RecursionError")
    ELSE LET r == EncodeItems(value, depth + 1, <<>>) IN
         IF r[1] = "stop" THEN ItemStopped("tuple", r[2])
         ELSE _tag("tuple", << <<Lit("elements"), ListV(r[2])>> >>)

_encode_set(value, depth) ==
    IF depth > RecursionLimit THEN Raise("RecursionError")
    ELSE LET r == EncodeItems(SortedByKey(value), depth + 1, <<>>) IN
         IF r[1] = "stop" THEN ItemStopped("set", r[2])
         ELSE _tag("set", << <<Lit("elements"), ListV(r[2])>> >>)

_encode_frozenset(value, depth) ==
    IF depth > RecursionLimit THEN Raise("RecursionError")
    ELSE LET r == EncodeItems(SortedByKey(value), depth + 1, <<>>) IN
         IF r[1] = "stop" THEN ItemStopped("frozenset", r[2])
         ELSE _tag("frozenset", << <<Lit("elements"), ListV(r[2])>> >>)

_encode_list(lst, depth) ==
    IF depth > RecursionLimit THEN Raise("RecursionError")
    ELSE LET r == EncodeItems(lst, depth + 1, <<>>) IN
         IF r[1] = "stop" THEN ItemStopped("list", r[2])
         ELSE ListV(r[2])

EncodeStringKeyPairs(pairs, depth, acc) ==
    IF pairs = <<>> THEN DictV(acc)
    ELSE LET k == pairs[1][1]
             enc_v == encode(pairs[1][2], depth)
         IN  IF IsRaise(enc_v) THEN enc_v
             ELSE IF IsNeedsRef(enc_v)
             THEN ContainerNeedsRef("dict",
                    <<"contains unencodable value for key '">> \o k[2] \o <<"'">>)
             ELSE IF IsNeedsStreamRef(enc_v)
             THEN ContainerNeedsRef("dict",
                    <<"contains iterator/generator for key '">> \o k[2] \o <<"'">>)
             ELSE EncodeStringKeyPairs(Tail(pairs), depth, PairsSet(acc, k, enc_v))

_encode_string_key_dict(d, depth) ==
    IF depth > RecursionLimit THEN Raise("RecursionError")
    ELSE EncodeStringKeyPairs(d, depth + 1, <<>>)

EncodeTaggedPairs(pairs, depth, acc) ==
    IF pairs = <<>> THEN _tag("dict", << <<Lit("pairs"), ListV(acc)>> >>)
    ELSE LET enc_k == encode(pairs[1][1], depth)
             enc_v == encode(pairs[1][2], depth)
         IN  IF IsRaise(enc_k) THEN enc_k
             ELSE IF IsRaise(enc_v) THEN enc_v
             ELSE IF IsNeedsRef(enc_k)
             THEN ContainerNeedsRef("dict", <<"contains unencodable key">>)
             ELSE IF IsNeedsStreamRef(enc_k)
             THEN ContainerNeedsRef("dict", <<"key is iterator/generator">>)
             ELSE IF IsNeedsRef(enc_v)
             THEN ContainerNeedsRef("dict", <<"contains unencodable value">>)
             ELSE IF IsNeedsStreamRef(enc_v)
             THEN ContainerNeedsRef("dict", <<"value is iterator/generator">>)
             ELSE EncodeTaggedPairs(Tail(pairs), depth, Append(acc, ListV(<<enc_k, enc_v>>)))

_encode_tagged_dict(d, depth) ==
    IF depth > RecursionLimit THEN Raise("RecursionError")
    ELSE EncodeTaggedPairs(d, depth + 1, <<>>)

_encode_dict(d, depth) ==
    IF depth > RecursionLimit THEN Raise("RecursionError")
    ELSE IF d = <<>> THEN DictV(<<>>)
    ELSE IF \A i \in 1..Len(d) : IsStr(d[i][1])
    THEN _encode_string_key_dict(d, depth + 1)
    ELSE _encode_tagged_dict(d, depth + 1)

encode(value, depth) ==
    IF depth > RecursionLimit THEN Raise("RecursionError")
    ELSE
    LET v == Deref(value) IN
    CASE v[1] = "none" -> v
      [] v[1] = "bool" -> v
      [] v[1] = "int" -> v
      [] v[1] = "float" -> _encode_float(v)
      [] v[1] = "str" -> v
      [] v[1] = "bytes" -> _tag("bytes", << <<Lit("data"), StrV(b64encode(v[2]))>> >>)
      [] v[1] = "atom" -> _tag("atom", << <<Lit("value"), StrV(v[2])>> >>)
      [] v[1] = "tuple" -> _encode_tuple(v[2], depth + 1)
      [] v[1] = "frozenset" -> _encode_frozenset(v[2], depth + 1)
      [] v[1] = "set" -> _encode_set(v[2], depth + 1)
      [] v[1] = "complex" -> _tag("complex", << <<Lit("real"), v[2]>>, <<Lit("imag"), v[3]>> >>)
      [] v[1] = "datetime" -> _tag("datetime", << <<Lit("value"), StrV(isoformat(v))>> >>)
      [] v[1] = "date" -> _tag("date", << <<Lit("value"), StrV(isoformat(v))>> >>)
      [] v[1] = "time" -> _tag("time", << <<Lit("value"), StrV(isoformat(v))>> >>)
      [] v[1] = "list" -> _encode_list(v[2], depth + 1)
      [] v[1] = "dict" -> _encode_dict(v[2], depth + 1)
      [] OTHER ->
            IF _is_generator_or_iterator(value)
            THEN DictV(<< <<Lit("__needs_stream_ref__"), BoolV(TRUE)>>,
                          <<Lit("__stream_type__"), Lit(_get_stream_type(value))>>,
                          <<Lit("__type_name__"), StrV(TypeName(value))>>,
                          <<Lit("__module__"), StrV(TypeModule(value))>> >>)
            ELSE NeedsRefMarker(TypeName(value), TypeModule(value))

----
\* snakebridge_types.decode.
SNAKEBRIDGE_ATOM_CLASS == FALSE   \* os.environ.get("SNAKEBRIDGE_ATOM_CLASS", ""): unset

RECURSIVE IsHashable(_)
IsHashable(v) ==
    CASE v[1] \in {"list", "dict", "set"} -> FALSE
      [] v[1] \in {"tuple", "frozenset"} -> \A i \in 1..Len(v[2]) : IsHashable(v[2][i])
      [] OTHER -> TRUE

\* The elements of a sequence without later duplicates (what set(...) keeps).
RECURSIVE Dedup(_, _)
Dedup(xs, acc) ==
    IF xs = <<>> THEN acc
    ELSE IF \E i \in 1..Len(acc) : acc[i] = xs[1] THEN Dedup(Tail(xs), acc)
    ELSE Dedup(Tail(xs), Append(acc, xs[1]))

ToFloat(v) == IF v[1] = "int" THEN FloatV(v[2]) ELSE v

_decode_callback(value, session_id, context) ==
    Callable(Or(DictGet(value, "ref_id"), DictGet(value, "callback_id")),
             DictGet(value, "arity"))

RECURSIVE decode(_, _, _)
RECURSIVE DecodeItems(_, _, _, _)
RECURSIVE DecodePairs(_, _, _, _)
RECURSIVE DecodeTaggedPairs(_, _, _, _)

\* [decode(item) for item in items]: the list, or the exception raised
DecodeItems(items, session_id, context, acc) ==
    IF items = <<>> THEN <<"items", acc>>
    ELSE LET dec == decode(Head(items), session_id, context) IN
         IF IsRaise(dec) THEN dec
         ELSE DecodeItems(Tail(items), session_id, context, Append(acc, dec))

\* A dict comprehension that keeps every value as it came.
DecodePairsShallow(pairs, session_id, context, acc) == DictV(pairs)

\* {k: decode(v) for k, v in value.items()}
DecodePairs(pairs, session_id, context, acc) ==
    IF pairs = <<>> THEN DictV(acc)
    ELSE LET dec == decode(pairs[1][2], session_id, context) IN
         IF IsRaise(dec) THEN dec
         ELSE DecodePairs(Tail(pairs), session_id, context, PairsSet(acc, pairs[1][1], dec))

DecodeTaggedPairs(pairs, session_id, context, acc) ==
    IF pairs = <<>> THEN DictV(acc)
    ELSE LET pair == pairs[1] IN
         IF ~(pair[1] = "list" /\ Len(pair[2]) = 2)
         THEN DecodeTaggedPairs(Tail(pairs), session_id, context, acc)
         ELSE LET key == decode(pair[2][1], session_id, context)
                  val == decode(pair[2][2], session_id, context)
              IN  IF IsRaise(key) THEN key
                  ELSE IF IsRaise(val) THEN val
                  ELSE IF ~IsHashable(key) THEN Raise("TypeError")
                  ELSE DecodeTaggedPairs(Tail(pairs), session_id, context, PairsSet(acc, key, val))

decode_tagged_dict(value, session_id, context) ==
    LET pairs == IF DictHas(value, "pairs") THEN DictGet(value, "pairs") ELSE ListV(<<>>) IN
    IF pairs[1] \notin {"list", "tuple"} THEN Raise("TypeError")
    ELSE DecodeTaggedPairs(pairs[2], session_id, context, <<>>)

\* value.get("elements") or value.get("value") or [], decoded item by item
DecodedElements(value, session_id, context) ==
    LET elements == Or(Or(DictGet(value, "elements"), DictGet(value, "value")), ListV(<<>>)) IN
    IF elements[1] \notin {"list", "tuple"} THEN Raise("TypeError")
    ELSE DecodeItems(elements[2], session_id, context, <<>>)

decode(value, session_id, context) ==
    CASE value[1] = "none" -> value
      [] value[1] \in {"bool", "int", "float", "str"} -> value
      [] value[1] = "list" ->
            LET r == DecodeItems(value[2], session_id, context, <<>>) IN
            IF IsRaise(r) THEN r ELSE ListV(r[2])
      [] value[1] = "dict" /\ ~DictHas(value, "__type__") ->
            DecodePairs(value[2], session_id, context, <<>>)
      [] value[1] = "dict" /\ DictHas(value, "__type__") ->
            LET type_tag == DictGet(value, "__type__") IN
            CASE type_tag = Lit("atom") ->
                    LET atom_value == IF DictHas(value, "value") THEN DictGet(value, "value") ELSE StrV(<<>>) IN
                    IF SNAKEBRIDGE_ATOM_CLASS THEN AtomV(Formatted(atom_value)) ELSE atom_value
              [] type_tag = Lit("tuple") ->
                    LET r == DecodedElements(value, session_id, context) IN
                    IF IsRaise(r) THEN r ELSE TupleV(r[2])
              [] type_tag = Lit("set") ->
                    LET r == DecodedElements(value, session_id, context) IN
                    IF IsRaise(r) THEN r
                    ELSE IF \E i \in 1..Len(r[2]) : ~IsHashable(r[2][i]) THEN Raise("TypeError")
                    ELSE SetV(Dedup(r[2], <<>>))
              [] type_tag = Lit("frozenset") ->
                    LET r == DecodedElements(value, session_id, context) IN
                    IF IsRaise(r) THEN r
                    ELSE IF \E i \in 1..Len(r[2]) : ~IsHashable(r[2][i]) THEN Raise("TypeError")
                    ELSE FrozenSetV(Dedup(r[2], <<>>))
              [] type_tag = Lit("bytes") ->
                    LET data == Or(DictGet(value, "data"), DictGet(value, "value")) IN
                    IF data = NoneV THEN value
                    ELSE IF ~IsStr(data) THEN Raise("TypeError")
                    ELSE b64decode(data[2])
              [] type_tag = Lit("complex") ->
                    IF ~DictHas(value, "real") \/ ~DictHas(value, "imag") THEN Raise("KeyError")
                    ELSE LET re == DictGet(value, "real")
                             im == DictGet(value, "imag")
                         IN  IF re[1] \notin {"int", "float"} \/ im[1] \notin {"int", "float"}
                             THEN Raise("TypeError")
                             ELSE ComplexV(ToFloat(re), ToFloat(im))
              [] type_tag = Lit("datetime") ->
                    IF ~DictHas(value, "value") THEN Raise("KeyError")
                    ELSE IF ~IsStr(DictGet(value, "value")) THEN Raise("TypeError")
                    ELSE datetime_fromisoformat(DictGet(value, "value")[2])
              [] type_tag = Lit("date") ->
                    IF ~DictHas(value, "value") THEN Raise("KeyError")
                    ELSE IF ~IsStr(DictGet(value, "value")) THEN Raise("TypeError")
                    ELSE date_fromisoformat(DictGet(value, "value")[2])
              [] type_tag = Lit("time") ->
                    IF ~DictHas(value, "value") THEN Raise("KeyError")
                    ELSE IF ~IsStr(DictGet(value, "value")) THEN Raise("TypeError")
                    ELSE time_fromisoformat(DictGet(value, "value")[2])
              [] type_tag = Lit("special_float") ->
                    LET special == DictGet(value, "value") IN
                    IF special = Lit("infinity") THEN Inf
                    ELSE IF special = Lit("neg_infinity") THEN NegInf
                    ELSE IF special = Lit("nan") THEN NaN
                    ELSE value
              [] type_tag = Lit("infinity") -> Inf
              [] type_tag = Lit("neg_infinity") -> NegInf
              [] type_tag = Lit("nan") -> NaN
              [] type_tag = Lit("callback") -> _decode_callback(value, session_id, context)
              [] type_tag = Lit("dict") -> decode_tagged_dict(value, session_id, context)
              [] OTHER -> DecodePairs(value[2], session_id, context, <<>>)
      [] OTHER -> value

----
\* The reference registry of snakebridge_adapter.py.  An entry is
\* [key, obj, created_at, last_access]; the sequence is the dict's insertion
\* order.  A session id and a ref id are strs of one-character tokens.
EnvUnset == <<"unset">>
EnvNum(n) == <<"num", n>>

_registry_limits ==
    [ttl |-> IF cfg.ttl_env[1] = "num" THEN cfg.ttl_env[2] ELSE DEFAULT_REF_TTL_SECONDS,
     max_size |-> IF cfg.max_env[1] = "num" THEN cfg.max_env[2] ELSE DEFAULT_REF_MAX_SIZE]

\* float(entry.get("last_access") or entry.get("created_at") or 0.0)
_entry_last_access(entry) ==
    IF entry.last_access # 0 THEN entry.last_access
    ELSE IF entry.created_at # 0 THEN entry.created_at
    ELSE 0

HasKey(reg, key) == \E i \in 1..Len(reg) : reg[i].key = key
EntryOf(reg, key) == reg[CHOOSE i \in 1..Len(reg) : reg[i].key = key]

RECURSIVE Without(_, _)
Without(reg, keys) ==
    IF reg = <<>> THEN <<>>
    ELSE IF reg[1].key \in keys THEN Without(Tail(reg), keys)
    ELSE <<reg[1]>> \o Without(Tail(reg), keys)

\* sorted(items, key=last access): stable, so ties keep insertion order
RECURSIVE InsertByAccess(_, _)
InsertByAccess(es, e) ==
    IF es = <<>> THEN <<e>>
    ELSE IF _entry_last_access(e) < _entry_last_access(es[1]) THEN <<e>> \o es
    ELSE <<es[1]>> \o InsertByAccess(Tail(es), e)

RECURSIVE SortedByAccess(_)
SortedByAccess(es) ==
    IF es = <<>> THEN <<>>
    ELSE InsertByAccess(SortedByAccess(SubSeq(es, 1, Len(es) - 1)), es[Len(es)])

\* A pass that lets every entry live on whatever its age.
NoTtlPass(reg, t) == reg

\* A pass that evicts by age whether or not a TTL is configured.
TtlPassUnconditional(reg, t) ==
    Without(reg, {reg[i].key : i \in {j \in 1..Len(reg) :
                                       t - _entry_last_access(reg[j]) > _registry_limits.ttl}})

\* The TTL pass of _prune_registry
TtlPass(reg, t) ==
    LET ttl_seconds == _registry_limits.ttl IN
    IF ttl_seconds > 0
    THEN Without(reg, {reg[i].key : i \in {j \in 1..Len(reg) :
                                            t - _entry_last_access(reg[j]) > ttl_seconds}})
    ELSE reg

\* The capacity pass of _prune_registry
CapacityPass(reg) ==
    LET max_size == _registry_limits.max_size IN
    IF max_size > 0 /\ Len(reg) > max_size
    THEN LET overflow == Len(reg) - max_size
             oldest == SortedByAccess(reg)
         IN  Without(reg, {oldest[i].key : i \in 1..overflow})
    ELSE reg

_prune_registry(reg, t) == CapacityPass(TtlPass(reg, t))

\* A table that keeps another instance of the object's class in place of the
\* object it was given.
_store_copy(reg, key, obj, t) ==
    LET copy == IF obj = Instance(0) THEN Instance(1) ELSE Instance(0)
        entry == [key |-> key, obj |-> copy, created_at |-> t, last_access |-> t]
    IN  IF HasKey(reg, key)
        THEN [i \in 1..Len(reg) |-> IF reg[i].key = key THEN entry ELSE reg[i]]
        ELSE Append(reg, entry)

_store_ref(reg, key, obj, t) ==
    LET entry == [key |-> key, obj |-> obj, created_at |-> t, last_access |-> t] IN
    IF HasKey(reg, key)
    THEN [i \in 1..Len(reg) |-> IF reg[i].key = key THEN entry ELSE reg[i]]
    ELSE Append(reg, entry)

\* An id source that hands out the same id every time.
SameUuid(n) == <<HexDigits[1]>>

\* uuid.uuid4().hex: the n-th id handed out
Uuid(n) == <<HexDigits[n + 1]>>

\* f"{session_id}:{ref_id}"
RegistryKey(session_id, ref_id) == Formatted(session_id) \o <<":">> \o Formatted(ref_id)

\* _make_ref and _make_stream_ref return [ret, reg]: the marker and the registry.
_make_ref(reg, session_id, obj, python_module, library, t, n) ==
    LET ref_id == StrV(Uuid(n))
        key == RegistryKey(session_id, ref_id)
    IN  [ret |-> DictV(<< <<Lit("__type__"), Lit("ref")>>,
                          <<Lit("__schema__"), IntV(REF_SCHEMA_VERSION)>>,
                          <<Lit("id"), ref_id>>,
                          <<Lit("session_id"), session_id>>,
                          <<Lit("python_module"), python_module>>,
                          <<Lit("library"), library>> >>),
         reg |-> _store_ref(_prune_registry(reg, t), key, obj, t)]

_make_stream_ref(reg, session_id, obj, python_module, library, stream_type, t, n) ==
    LET ref_id == StrV(Uuid(n))
        key == RegistryKey(session_id, ref_id)
    IN  [ret |-> DictV(<< <<Lit("__type__"), Lit("stream_ref")>>,
                          <<Lit("id"), ref_id>>,
                          <<Lit("session_id"), session_id>>,
                          <<Lit("python_module"), python_module>>,
                          <<Lit("library"), library>>,
                          <<Lit("stream_type"), stream_type>> >>),
         reg |-> _store_ref(_prune_registry(reg, t), key, obj, t)]

\* snakebridge_adapter.encode_result: [ret, reg]; ret is the wire value, or the
\* exception encode raised (nothing catches it).  Dispatch is the body after
\* `encoded = encode(result)`.
Dispatch(encoded, reg, result, session_id, python_module, library, t, n) ==
    IF IsRaise(encoded) THEN [ret |-> encoded, reg |-> reg]
    ELSE IF IsNeedsStreamRef(encoded)
    THEN _make_stream_ref(reg, session_id, result, python_module, library,
                          Or(DictGet(encoded, "__stream_type__"), Lit("iterator")), t, n)
    ELSE IF IsNeedsRef(encoded)
    THEN _make_ref(reg, session_id, result, python_module, library, t, n)
    ELSE [ret |-> encoded, reg |-> reg]

encode_result(reg, result, session_id, python_module, library, t, n) ==
    Dispatch(encode(result, 1), reg, result, session_id, python_module, library, t, n)

IsRefMarker(w) == IsDict(w) /\ DictGet(w, "__type__") = Lit("ref")
IsStreamRefMarker(w) == IsDict(w) /\ DictGet(w, "__type__") = Lit("stream_ref")
MintsHandle(w) == IsRefMarker(w) \/ IsStreamRefMarker(w)

----
\* The values the codec is exercised on.
Sessions == {Lit("a"), StrV(<<"a", ":", "b">>)}

ScalarInputs ==
    {NoneV, BoolV(TRUE), BoolV(FALSE), IntV(0), IntV(1), IntV(-7), FloatV(3),
     Inf, NegInf, StrV(<<>>), Lit("a"), StrV(<<"a", "b">>),
     BytesV(<<>>), BytesV(<<1>>), BytesV(<<1, 2>>), BytesV(<<0, 255, 16>>)}

RichInputs ==
    {ComplexV(FloatV(1), FloatV(2)),
     DateTimeV(2024, 1, 15, 12, 30, 45, 0, FALSE, 0),
     DateTimeV(1999, 12, 31, 23, 59, 59, 120, TRUE, 90),
     DateV(2024, 2, 29), TimeV(7, 5, 0, 0, FALSE, 0), TimeV(7, 5, 9, 500000, TRUE, -60)}

EncodableLeaves == ScalarInputs \cup RichInputs

EncodableContainers ==
    {ListV(<<>>), TupleV(<<>>), SetV(<<>>), FrozenSetV(<<>>), DictV(<<>>)}
    \cup {ListV(<<x>>) : x \in EncodableLeaves}
    \cup {TupleV(<<x>>) : x \in EncodableLeaves}
    \cup {DictV(<< <<Lit("k"), x>> >>) : x \in EncodableLeaves}
    \cup {DictV(<< <<IntV(1), x>> >>) : x \in EncodableLeaves}
    \cup {SetV(<<x>>) : x \in ScalarInputs}
    \cup {FrozenSetV(<<x>>) : x \in ScalarInputs}
    \cup {DictV(<< <<x, IntV(1)>> >>) : x \in ScalarInputs}
    \cup {SetV(<<IntV(10), Lit("b"), IntV(2)>>),
          ListV(<<IntV(1), TupleV(<<Lit("a"), SetV(<<IntV(2)>>)>>), DictV(<< <<Lit("k"), NoneV>> >>)>>),
          DictV(<< <<TupleV(<<IntV(1), IntV(2)>>), ListV(<<BytesV(<<1>>)>>)>> >>),
          DictV(<< <<Lit("__type__"), Lit("tuple")>>, <<Lit("elements"), ListV(<<IntV(1)>>)>> >>),
          PlainList}

\* Values holding something the wire cannot carry, or nested past the ceiling.
OpaqueInputs ==
    {Obj1, Gen, AsyncGen, Iter, File, NaN, ListWithObj, DictWithObj,
     ListSameObjTwice, ListTwoObjs,
     TupleV(<<IntV(1), Obj1, IntV(3)>>),
     SetV(<<IntV(1), IntV(2), Hashable>>),
     FrozenSetV(<<IntV(1), Hashable>>),
     DictV(<< <<IntV(1), Lit("one")>>, <<IntV(2), Obj1>> >>),
     DictV(<< <<Lit("level1"),
                DictV(<< <<Lit("level2"), ListV(<<IntV(1), IntV(2), Obj1, IntV(4)>>)>> >>)>> >>),
     DictV(<< <<Lit("stream"), Gen>>, <<Lit("ok"), IntV(1)>> >>),
     ListV(<<ListTwoObjs, Obj1>>)}

CyclicInputs == {SelfList, DictA, ListV(<<SelfList>>)}
DeepInputs == {Deep, ObjThenDeep, ListV(<<Deep, Obj1>>), DictV(<< <<Lit("k"), Deep>> >>)}

\* complex numbers with a component that is not finite, and an async
\* generator inside a map
SpecialInputs ==
    {ComplexV(Inf, FloatV(0)), ComplexV(FloatV(1), NaN),
     DictV(<< <<Lit("stream"), AsyncGen>>, <<Lit("ok"), IntV(1)>> >>)}

\* The orders in which a set can hand out its elements.
IterationOrders(xs) ==
    {[i \in 1..Len(xs) |-> xs[f[i]]] :
        f \in {g \in [1..Len(xs) -> 1..Len(xs)] : \A i, j \in 1..Len(xs) : g[i] = g[j] => i = j}}

\* Sets and frozensets in every iteration order, and sets that are equal
\* because 1 == 1.0 and 2 == 2.0
SetInputs ==
    LET orders == IterationOrders(<<IntV(10), Lit("b"), IntV(2)>>)
                     \cup IterationOrders(<<IntV(1), FloatV(2)>>)
                     \cup IterationOrders(<<FloatV(1), IntV(2)>>)
    IN  {SetV(xs) : xs \in orders} \cup {FrozenSetV(xs) : xs \in orders}

Inputs == EncodableLeaves \cup EncodableContainers \cup OpaqueInputs
              \cup CyclicInputs \cup DeepInputs \cup SpecialInputs \cup SetInputs

----
\* What the variables hold while the part of the program they belong to is idle.
Threads == {"t1", "t2"}
NoThread == "none"
Unlocked == [owner |-> NoThread, count |-> 0]
IdleThread == [op |-> "idle", pc |-> "idle", ref |-> NoneV, sid |-> NoneV,
               key |-> <<>>, obj |-> NoneV, n |-> 0, at |-> 0, result |-> NoneV]
NoOp == "none"
IdleCallback == [pc |-> "idle", context |-> NoneV, importable |-> TRUE, stub |-> NoneV,
                 args |-> <<>>, sent |-> <<>>, response |-> NoneV, result |-> NoneV]
MgrThreads == {"w1", "w2", "cleanup"}
IdleLocals == [op |-> "idle", pc |-> "idle", id |-> 0, now |-> 0, last_seen |-> 0,
               oldest_id |-> NoneV, result |-> NoneV]
NoManager == [instances |-> <<>>, lock |-> NoThread, ttl |-> 0, max_instances |-> 0,
              thr |-> [t \in MgrThreads |-> IdleLocals]]
NoStream == [source |-> NoneV, marker |-> NoneV, consumed |-> 0, pulls |-> <<>>]
NoClient == [pc |-> "idle", op |-> "none", ambient |-> NoneV, before |-> NoneV,
             correlation_id |-> NoneV, binary_parameters |-> NoneV, token |-> NoneV,
             server |-> <<>>, fails_at |-> 0, position |-> 0, yielded |-> <<>>,
             rpcs |-> <<>>, cancelled |-> FALSE, result |-> NoneV, calls |-> 0]
ExtIdle == cb = IdleCallback /\ mgr = NoManager /\ stream = NoStream /\ client = NoClient
DefaultEnv == [ttl_env |-> EnvUnset, max_env |-> EnvUnset, legacy_env |-> EnvUnset]
NoTool == "none"
TestModule == Lit("test")

\* ---- the codec, called on one value: encode, decode, encode_result ----
CodecInit ==
    /\ input \in Inputs
    /\ session \in Sessions
    /\ pc = "start"
    /\ wire = NoneV
    /\ decoded = NoneV
    /\ registry = <<>>
    /\ now = 1
    /\ nextId = 0
    /\ cfg = DefaultEnv
    /\ ret = NoneV
    /\ lastOp = NoOp
    /\ storeRun = 0
    /\ thr = [t \in Threads |-> IdleThread]
    /\ registry_lock = Unlocked
    /\ tool = NoTool
    /\ trace = <<>>
    /\ ExtIdle

\* encoded = encode(value)
CallEncode ==
    /\ pc = "start"
    /\ wire' = encode(input, 1)
    /\ pc' = "encoded"
    /\ UNCHANGED <<registry, now, nextId, cfg, input, session, decoded,
                   tableVars, raceVars, callVars, extVars>>

\* decode(json.loads(json.dumps(encoded)))
CallDecode ==
    /\ pc = "encoded"
    /\ ~IsRaise(wire)
    /\ decoded' = decode(wire, session, NoneV)
    /\ pc' = "decoded"
    /\ UNCHANGED <<registry, now, nextId, cfg, input, session, wire,
                   tableVars, raceVars, callVars, extVars>>

\* result = encode_result(value, session_id, python_module, library)
CallEncodeResult ==
    /\ pc = "start"
    /\ \E r \in {encode_result(registry, input, session, TestModule, TestModule,
                                now, nextId)} :
           /\ wire' = r.ret
           /\ registry' = r.reg
           /\ nextId' = IF MintsHandle(r.ret) THEN nextId + 1 ELSE nextId
    /\ pc' = "result"
    /\ UNCHANGED <<now, cfg, input, session, decoded, tableVars, raceVars, callVars, extVars>>

CodecNext == CallEncode \/ CallDecode \/ CallEncodeResult

SpecCodec == CodecInit /\ [][CodecNext]_vars

----
\* Resolving and releasing handles.

\* _extract_ref_identity: <<"ident", ref_id, ref_session>>, or the ValueError raised
_extract_ref_identity(ref, session_id) ==
    LET typed == DictGet(ref, "__type__") = Lit("ref")
        legacy == Truthy(DictGet(ref, "__snakebridge_ref__"))
        ref_id == IF typed THEN Or(DictGet(ref, "id"), DictGet(ref, "ref_id"))
                  ELSE DictGet(ref, "ref_id")
        ref_session == Or(DictGet(ref, "session_id"), session_id)
    IN  IF ~typed /\ ~legacy THEN Raise("ValueError")
        ELSE IF ~Truthy(ref_id) THEN Raise("ValueError")
        ELSE IF Truthy(ref_session) /\ Truthy(session_id) /\ ref_session # session_id
        THEN Raise("ValueError")
        ELSE <<"ident", ref_id, ref_session>>

\* The key a ref payload names for a caller in session_id (<<>> when
\* _extract_ref_identity raises).
KeyOf(ref, session_id) ==
    LET ident == _extract_ref_identity(ref, session_id) IN
    IF ~IsDict(ref) \/ IsRaise(ident) THEN <<>>
    ELSE RegistryKey(ident[3], ident[2])

_touch_entry(reg, key, t) ==
    [i \in 1..Len(reg) |-> IF reg[i].key = key THEN [reg[i] EXCEPT !.last_access = t]
                           ELSE reg[i]]

UnknownReference == Raise("KeyError")

\* _resolve_ref: [ret, reg]
_resolve_ref(reg, ref, session_id, t) ==
    IF ~IsDict(ref) THEN [ret |-> Raise("ValueError"), reg |-> reg]
    ELSE LET pruned == _prune_registry(reg, t)
             ident == _extract_ref_identity(ref, session_id)
             key == RegistryKey(ident[3], ident[2])
         IN  IF IsRaise(ident)
             THEN [ret |-> ident, reg |-> pruned]
             ELSE IF ~HasKey(pruned, key)
             THEN [ret |-> UnknownReference, reg |-> pruned]
             ELSE [ret |-> EntryOf(pruned, key).obj, reg |-> _touch_entry(pruned, key, t)]

\* A release that reports success and leaves the entry where it is.
_release_keep(reg, ref, session_id, t) ==
    [ret |-> BoolV(TRUE), reg |-> _prune_registry(reg, t)]

\* _release_ref: [ret, reg]
_release_ref(reg, ref, session_id, t) ==
    IF ~IsDict(ref) THEN [ret |-> Raise("ValueError"), reg |-> reg]
    ELSE LET pruned == _prune_registry(reg, t)
             ident == _extract_ref_identity(ref, session_id)
             key == RegistryKey(ident[3], ident[2])
         IN  IF IsRaise(ident)
             THEN [ret |-> ident, reg |-> pruned]
             ELSE IF HasKey(pruned, key)
             THEN [ret |-> BoolV(TRUE), reg |-> Without(pruned, {key})]
             ELSE [ret |-> BoolV(FALSE), reg |-> pruned]

\* key.startswith(prefix)
StartsWith(key, prefix) ==
    Len(prefix) <= Len(key) /\ SubSeq(key, 1, Len(prefix)) = prefix

\* _release_session: [ret, reg]
_release_session(reg, session_id) ==
    IF ~Truthy(session_id) THEN [ret |-> IntV(0), reg |-> reg]
    ELSE LET prefix == Formatted(session_id) \o <<":">>
             keys == {reg[i].key : i \in {j \in 1..Len(reg) : StartsWith(reg[j].key, prefix)}}
         IN  [ret |-> IntV(Cardinality(keys)), reg |-> Without(reg, keys)]

----
\* Vocabulary of the codec claims: the position-by-position comparison of a
\* value with its wire form, and Python's == on values.
Opaque(v) == Deref(v)[1] \in {"object", "generator", "async_generator", "iterator", "file"}
IsContainer(v) == Deref(v)[1] \in {"list", "tuple", "set", "frozenset", "dict"}
StringKeyed(pairs) == \A i \in 1..Len(pairs) : IsStr(pairs[i][1])

\* The children of a container, in the order the wire form lists them.
Kids(v) ==
    CASE v[1] \in {"list", "tuple"} -> v[2]
      [] v[1] \in {"set", "frozenset"} -> SortedByKey(v[2])
      [] v[1] = "dict" /\ StringKeyed(v[2]) -> [i \in 1..Len(v[2]) |-> v[2][i][2]]
      [] OTHER -> [i \in 1..(2 * Len(v[2])) |-> v[2][(i + 1) \div 2][2 - (i % 2)]]

NoKids == [ok |-> FALSE, kids |-> <<>>]

\* The children of the wire form w, if w has the shape v's container type encodes to.
WireKids(v, w) ==
    CASE v[1] = "list" ->
            IF w[1] = "list" /\ Len(w[2]) = Len(v[2]) THEN [ok |-> TRUE, kids |-> w[2]]
            ELSE NoKids
      [] v[1] \in {"tuple", "set", "frozenset"} ->
            IF /\ IsDict(w)
               /\ DictGet(w, "__type__") = StrV(<<v[1]>>)
               /\ DictGet(w, "elements")[1] = "list"
               /\ Len(DictGet(w, "elements")[2]) = Len(v[2])
            THEN [ok |-> TRUE, kids |-> DictGet(w, "elements")[2]]
            ELSE NoKids
      [] v[1] = "dict" /\ StringKeyed(v[2]) ->
            IF /\ IsDict(w)
               /\ Len(w[2]) = Len(v[2])
               /\ \A i \in 1..Len(v[2]) : w[2][i][1] = v[2][i][1]
            THEN [ok |-> TRUE, kids |-> [i \in 1..Len(w[2]) |-> w[2][i][2]]]
            ELSE NoKids
      [] OTHER ->
            IF /\ IsDict(w)
               /\ DictGet(w, "__type__") = Lit("dict")
               /\ DictGet(w, "pairs")[1] = "list"
               /\ Len(DictGet(w, "pairs")[2]) = Len(v[2])
               /\ \A i \in 1..Len(v[2]) :
                     /\ DictGet(w, "pairs")[2][i][1] = "list"
                     /\ Len(DictGet(w, "pairs")[2][i][2]) = 2
            THEN [ok |-> TRUE,
                  kids |-> [i \in 1..(2 * Len(v[2])) |->
                               DictGet(w, "pairs")[2][(i + 1) \div 2][2][2 - (i % 2)]]]
            ELSE NoKids

\* w is v with its shape kept: every encodable leaf encoded as it would be
\* alone, every opaque leaf and every point where a cycle closes a marker.
RECURSIVE Graceful(_, _, _)
Graceful(v, w, seen) ==
    IF IsPtr(v) /\ v \in seen THEN IsRefMarker(w)
    ELSE IF Opaque(v) THEN MintsHandle(w)
    ELSE IF IsContainer(v)
    THEN LET wk == WireKids(Deref(v), w)
             ks == Kids(Deref(v))
         IN  /\ wk.ok
             /\ \A i \in 1..Len(ks) :
                   Graceful(ks[i], wk.kids[i], IF IsPtr(v) THEN seen \cup {v} ELSE seen)
    ELSE w = encode(v, 1)

\* The opaque leaves of v, each with the id of the marker at its position in w
\* (NoneV where w has no marker there).
RECURSIVE Occ(_, _, _)
Occ(v, w, ok) ==
    IF Opaque(v)
    THEN {<<v, IF ok /\ MintsHandle(w) THEN DictGet(w, "id") ELSE NoneV>>}
    ELSE IF IsContainer(v)
    THEN LET wk == IF ok THEN WireKids(Deref(v), w) ELSE NoKids
             ks == Kids(Deref(v))
         IN  UNION {Occ(ks[i], IF wk.ok THEN wk.kids[i] ELSE NoneV, wk.ok) : i \in 1..Len(ks)}
    ELSE {}

IsNumber(a) == a[1] \in {"bool", "int"} \/ (a[1] = "float" /\ a[2] = "fin")
NumberOf(a) == IF a[1] = "bool" THEN (IF a[2] THEN 1 ELSE 0)
               ELSE IF a[1] = "int" THEN a[2] ELSE a[3]

\* a == b in Python
RECURSIVE PyEq(_, _)
PyEq(a0, b0) ==
    LET a == Deref(a0)
        b == Deref(b0)
    IN  IF IsNumber(a) /\ IsNumber(b) THEN NumberOf(a) = NumberOf(b)
        ELSE IF a[1] \in {"set", "frozenset"} /\ b[1] \in {"set", "frozenset"}
        THEN /\ \A i \in 1..Len(a[2]) : \E j \in 1..Len(b[2]) : PyEq(a[2][i], b[2][j])
             /\ \A j \in 1..Len(b[2]) : \E i \in 1..Len(a[2]) : PyEq(a[2][i], b[2][j])
        ELSE IF a[1] # b[1] THEN FALSE
        ELSE IF a[1] \in {"list", "tuple"}
        THEN Len(a[2]) = Len(b[2]) /\ \A i \in 1..Len(a[2]) : PyEq(a[2][i], b[2][i])
        ELSE IF a[1] = "dict"
        THEN /\ Len(a[2]) = Len(b[2])
             /\ \A i \in 1..Len(a[2]) : \E j \in 1..Len(b[2]) :
                   PyEq(a[2][i][1], b[2][j][1]) /\ PyEq(a[2][i][2], b[2][j][2])
        ELSE a = b

StructuredOpaqueInputs == {v \in OpaqueInputs : IsContainer(v)}
RoundTripInputs == EncodableLeaves \cup EncodableContainers

----
\* Claims about the codec, under SpecCodec.

\* C1 (structure preservation): encode_result of a container holding opaque
\* leaves keeps the container's shape, encodes every encodable element as it
\* would be alone, and puts a ref (or stream_ref) marker at each opaque leaf.
StructurePreserved ==
    (pc = "result" /\ input \in StructuredOpaqueInputs) => Graceful(input, wire, {})

\* C1: the case at hand -- [1, obj, 3] went through encode_result and came
\* back as one ref marker for the whole list.
ListCollapsedToRef ==
    /\ pc = "result"
    /\ input = ListWithObj
    /\ IsRefMarker(wire)
    /\ HasKey(registry, RegistryKey(session, DictGet(wire, "id")))
    /\ EntryOf(registry, RegistryKey(session, DictGet(wire, "id"))).obj = ListWithObj

\* C2 (identity memoization): within one encode_result call every occurrence
\* of an opaque object is replaced by a marker, occurrences of the same object
\* carry the same id, and distinct objects carry different ids.
SameObjectSameId ==
    (pc = "result" /\ input \in StructuredOpaqueInputs) =>
        \A o1, o2 \in Occ(input, wire, TRUE) :
            /\ o1[2] # NoneV
            /\ (o1[1] = o2[1]) <=> (o1[2] = o2[2])

\* C2: the case at hand -- [obj, "separator", obj] went through encode_result
\* and neither occurrence of obj has a marker of its own.
SharedObjectHasNoMarker ==
    /\ pc = "result"
    /\ input = ListSameObjTwice
    /\ Occ(input, wire, TRUE) = {<<Obj1, NoneV>>}

\* C3 (cycle safety): encode_result of a list or map that contains itself
\* returns, keeps the shape of the non-cyclic parts and has a ref marker where
\* the cycle closes.
CycleSafe ==
    (pc = "result" /\ input \in CyclicInputs) =>
        ~IsRaise(wire) /\ Graceful(input, wire, {})

\* C3: the case at hand -- the self-containing list ran encode into the
\* interpreter's recursion limit.
CycleRaisedRecursionError ==
    /\ pc = "result"
    /\ input = SelfList
    /\ wire = Raise("RecursionError")

\* C4 (encode is total): encode_result never raises to its caller; an input
\* nested past the recursion ceiling gives one ref marker for the top-level
\* value, stored in the caller's session.
EncodeResultTotal ==
    pc = "result" =>
        /\ ~IsRaise(wire)
        /\ input \in DeepInputs =>
              /\ IsRefMarker(wire)
              /\ HasKey(registry, RegistryKey(session, DictGet(wire, "id")))
              /\ EntryOf(registry, RegistryKey(session, DictGet(wire, "id"))).obj = input

\* C4: the case at hand -- the deeply nested list made encode_result raise.
DeepInputRaised ==
    /\ pc = "result"
    /\ input = Deep
    /\ IsRaise(wire)

\* C5 (fallback transactionality): an encode_result call that hits the
\* recursion ceiling leaves exactly one new handle in the table (the table was
\* empty before the call), whatever it minted for earlier siblings.
FallbackLeavesOneHandle ==
    (pc = "result" /\ input \in DeepInputs) => Len(registry) = 1

\* C5: the case at hand -- [<deep list>, obj] hit the ceiling and the call
\* left no handle at all.
FallbackLeftNoHandle ==
    /\ pc = "result"
    /\ input = ListV(<<Deep, Obj1>>)
    /\ wire = Raise("RecursionError")
    /\ registry = <<>>

\* C6 (round trip): decode(encode(v)) == v for every value built from the
\* encodable leaves and containers of them.
RoundTrip ==
    (pc = "decoded" /\ input \in RoundTripInputs) => PyEq(decoded, input)

\* C6: the case at hand -- the empty byte string came back as its tagged map.
EmptyBytesNotRestored ==
    /\ pc = "decoded"
    /\ input = BytesV(<<>>)
    /\ IsDict(decoded)
    /\ DictGet(decoded, "__type__") = Lit("bytes")

----
\* ---- the handle table, driven by one caller at a time ----
TtlEnvs == {EnvUnset, EnvNum(MaxTtl)}
MaxEnvs == {EnvUnset, EnvNum(MaxSize)}

\* The ref payload a caller holds for the n-th id minted in session_id.
RefMarker(session_id, n) ==
    _make_ref(<<>>, session_id, NoneV, TestModule, TestModule, 0, n).ret
RefPayloads == {RefMarker(s, n) : s \in Sessions, n \in 0..(nextId - 1)}

\* A payload written by a caller of session "a": its id is "b:" followed by the
\* n-th id handed out.
ForgedMarker(n) ==
    DictV(<< <<Lit("__type__"), Lit("ref")>>,
             <<Lit("id"), StrV(<<"b", ":">> \o Uuid(n))>>,
             <<Lit("session_id"), Lit("a")>> >>)
ForgedPayloads == {ForgedMarker(n) : n \in 0..(nextId - 1)}
Payloads == RefPayloads \cup ForgedPayloads

TableInit ==
    /\ registry = <<>>
    /\ now = 1
    /\ nextId = 0
    /\ cfg \in [ttl_env : TtlEnvs, max_env : MaxEnvs, legacy_env : {EnvUnset}]
    /\ ret = NoneV
    /\ lastOp = NoOp
    /\ storeRun = 0
    /\ pc = "table"
    /\ input = NoneV
    /\ session = NoneV
    /\ wire = NoneV
    /\ decoded = NoneV
    /\ thr = [t \in Threads |-> IdleThread]
    /\ registry_lock = Unlocked
    /\ tool = NoTool
    /\ trace = <<>>
    /\ ExtIdle

\* execute_tool, call_type "class": instance = cls(...) is a new object the wire
\* cannot carry, and encode_result(instance, session_id, ...) stores it.
Store(s) ==
    /\ nextId < MaxIds
    /\ \E r \in {encode_result(registry, Instance(nextId), s, TestModule, TestModule,
                                now, nextId)} :
          /\ registry' = r.reg
          /\ ret' = r.ret
    /\ nextId' = nextId + 1
    /\ lastOp' = "store"
    /\ storeRun' = storeRun + 1
    /\ UNCHANGED <<now, cfg, codecVars, raceVars, callVars, extVars>>

\* _resolve_ref(ref, session_id)
Resolve(ref, s) ==
    /\ \E r \in {_resolve_ref(registry, ref, s, now)} :
          /\ registry' = r.reg
          /\ ret' = r.ret
    /\ lastOp' = "resolve"
    /\ storeRun' = 0
    /\ UNCHANGED <<now, nextId, cfg, codecVars, raceVars, callVars, extVars>>

\* _release_ref(ref, session_id)
ReleaseRef(ref, s) ==
    /\ \E r \in {_release_ref(registry, ref, s, now)} :
          /\ registry' = r.reg
          /\ ret' = r.ret
    /\ lastOp' = "release"
    /\ storeRun' = 0
    /\ UNCHANGED <<now, nextId, cfg, codecVars, raceVars, callVars, extVars>>

\* _release_session(session_id)
ReleaseSession(s) ==
    /\ \E r \in {_release_session(registry, s)} :
          /\ registry' = r.reg
          /\ ret' = r.ret
    /\ lastOp' = "release_session"
    /\ storeRun' = 0
    /\ UNCHANGED <<now, nextId, cfg, codecVars, raceVars, callVars, extVars>>

\* time.time() moves on between two operations
Tick ==
    /\ now < MaxTime
    /\ now' = now + 1
    /\ UNCHANGED <<registry, nextId, cfg, tableVars, codecVars, raceVars, callVars, extVars>>

TableNext ==
    \/ \E s \in Sessions : Store(s)
    \/ \E ref \in Payloads, s \in Sessions : Resolve(ref, s)
    \/ \E ref \in Payloads, s \in Sessions : ReleaseRef(ref, s)
    \/ \E s \in Sessions : ReleaseSession(s)
    \/ Tick

SpecTable == TableInit /\ [][TableNext]_vars

----
\* Vocabulary of the table claims.
RefSession(ref) == DictGet(ref, "session_id")
RefKey(ref) == KeyOf(ref, RefSession(ref))
TtlSet == cfg.ttl_env # EnvUnset
MaxSet == cfg.max_env # EnvUnset
Age(entry) == now - _entry_last_access(entry)

\* execute_tool hands the n-th new instance to the call that mints the n-th id:
\* the object a marker was returned for.
InstanceOf(ref) ==
    Instance(CHOOSE n \in 0..(MaxIds - 1) : StrV(Uuid(n)) = DictGet(ref, "id"))

\* Resolve(ref, s) sets ret and registry to the two fields of
\* _resolve_ref(registry, ref, s, now): what a Resolve of ref issued now, from
\* the session ref was minted in, does to a handle that is in the table.
ResolveWithTtl(ref) ==
    LET key == RefKey(ref)
        entry == EntryOf(registry, key)
        r == _resolve_ref(registry, ref, RefSession(ref), now)
    IN  HasKey(registry, key) =>
            IF Age(entry) > _registry_limits.ttl
            THEN /\ r.ret = UnknownReference
                 /\ ~HasKey(r.reg, key)
            ELSE Len(registry) <= _registry_limits.max_size =>
                    /\ r.ret = entry.obj
                    /\ HasKey(r.reg, key)
                    /\ EntryOf(r.reg, key).last_access = now

\* C7 (TTL eviction): with a TTL t > 0 configured, a Resolve of a handle whose
\* last access is more than t ago fails with the unknown-reference KeyError and
\* the handle is gone; a Resolve of a handle whose last access is at most t ago
\* (in a table within its capacity) returns the object and sets last_access to
\* the time of the call, from which the next t runs.
TtlEviction ==
    TtlSet => \A ref \in RefPayloads : ResolveWithTtl(ref)

\* C7: the case at hand -- a Resolve has just returned the object of a handle
\* that is older than the TTL and lives on because an earlier Resolve refreshed it.
RefreshedHandleOutlivesTtl ==
    /\ TtlSet
    /\ lastOp = "resolve"
    /\ \E i \in 1..Len(registry) :
          /\ registry[i].obj = ret
          /\ registry[i].last_access = now
          /\ now - registry[i].created_at > _registry_limits.ttl
          /\ \E earlier \in 1..(now - 1) :
                /\ earlier > registry[i].created_at
                /\ earlier - registry[i].created_at <= _registry_limits.ttl
                /\ now - earlier <= _registry_limits.ttl

\* C8 (capacity eviction): with a maximum size configured and TTL disabled, the
\* table holds exactly max_size entries after max_size + 1 stores in a row.
StoreKeepsTableWithinMax ==
    (~TtlSet /\ MaxSet /\ storeRun = _registry_limits.max_size + 1) =>
        Len(registry) = _registry_limits.max_size

\* C8: the case at hand -- max_size + 1 stores in a row into an empty table
\* have left max_size + 1 entries in it.
TableOverMax ==
    /\ ~TtlSet
    /\ MaxSet
    /\ storeRun = _registry_limits.max_size + 1
    /\ nextId = storeRun
    /\ Len(registry) = _registry_limits.max_size + 1

\* C9 (store-then-resolve): the marker a store returns names an entry that holds
\* the very object that was passed; every handle in the table holds the object
\* its marker was returned for; a Resolve of a marker in its session that finds
\* the handle still in the table returns that very object, and a Resolve that
\* has returned an object returned the one stored under a handle of the table.
StoreThenResolve ==
    /\ lastOp = "store" =>
          /\ IsRefMarker(ret)
          /\ InstanceOf(ret) = Instance(nextId - 1)
          /\ HasKey(registry, RefKey(ret))
    /\ \A ref \in RefPayloads :
          HasKey(registry, RefKey(ref)) =>
              /\ EntryOf(registry, RefKey(ref)).obj = InstanceOf(ref)
              /\ LET r == _resolve_ref(registry, ref, RefSession(ref), now)
                 IN  HasKey(r.reg, RefKey(ref)) => r.ret = InstanceOf(ref)
    /\ (lastOp = "resolve" /\ ~IsRaise(ret)) =>
          \E ref \in RefPayloads : ret = InstanceOf(ref) /\ HasKey(registry, RefKey(ref))

\* C9: the case at hand -- a Resolve has just returned the instance that was
\* stored under the second id handed out, while the first handle is still there.
ResolvedStoredInstance ==
    /\ lastOp = "resolve"
    /\ ret = Instance(1)
    /\ \E i \in 1..Len(registry) :
          /\ registry[i].obj = Instance(1)
          /\ registry[i].key = RefKey(RefMarker(Lit("a"), 1))
    /\ \E i \in 1..Len(registry) : registry[i].obj = Instance(0)

----
\* Claims about release, under SpecTable.

\* A handle that neither eviction policy would remove now: it is in the table,
\* not older than the TTL, and the table is within its maximum size.
Expired(entry) == _registry_limits.ttl > 0 /\ Age(entry) > _registry_limits.ttl
OverMax == _registry_limits.max_size > 0 /\ Len(registry) > _registry_limits.max_size
Live(key) == HasKey(registry, key) /\ ~Expired(EntryOf(registry, key)) /\ ~OverMax

\* Every entry of the table after the step was there before it, untouched.
OnlyRemoves == \A i \in 1..Len(registry') : \E j \in 1..Len(registry) : registry'[i] = registry[j]

\* Every entry the step removed, key aside, is one an eviction policy removes.
OnlyEvicts(key) ==
    \A j \in 1..Len(registry) :
        (registry[j].key # key /\ ~HasKey(registry', registry[j].key)) =>
            Expired(registry[j]) \/ OverMax

\* A release of ref from the session it names.
ReleaseOf(ref) == lastOp' = "release" /\ ReleaseRef(ref, RefSession(ref))

\* C11 as stated (release is idempotent): a Release of a live handle returns
\* true and removes it; a Release of a handle that is gone returns false and
\* leaves the table unchanged; a handle that is gone stays gone and a Resolve of
\* it fails with the unknown-reference KeyError.
ReleaseIdempotentTableUnchanged ==
    [][\A ref \in RefPayloads :
          /\ (Live(RefKey(ref)) /\ ReleaseOf(ref)) =>
                ret' = BoolV(TRUE) /\ ~HasKey(registry', RefKey(ref))
          /\ (~HasKey(registry, RefKey(ref)) /\ ReleaseOf(ref)) =>
                ret' = BoolV(FALSE) /\ registry' = registry
          /\ ~HasKey(registry, RefKey(ref)) =>
                /\ ~HasKey(registry', RefKey(ref))
                /\ _resolve_ref(registry, ref, RefSession(ref), now).ret = UnknownReference]_vars

\* C11 (release is idempotent, eviction aside): a Release of a live handle
\* returns true and removes it; a Release of a handle that is gone returns
\* false, adds and alters nothing, and removes only what the eviction pass at
\* the start of the call evicts (entries past the TTL, or entries of a table
\* over its maximum size); a handle that is gone stays gone and a Resolve of it
\* fails with the unknown-reference KeyError.
ReleaseIdempotent ==
    [][\A ref \in RefPayloads :
          /\ (Live(RefKey(ref)) /\ ReleaseOf(ref)) =>
                /\ ret' = BoolV(TRUE)
                /\ ~HasKey(registry', RefKey(ref))
                /\ OnlyRemoves /\ OnlyEvicts(RefKey(ref))
          /\ (~HasKey(registry, RefKey(ref)) /\ ReleaseOf(ref)) =>
                /\ ret' = BoolV(FALSE)
                /\ OnlyRemoves /\ OnlyEvicts(RefKey(ref))
          /\ ~HasKey(registry, RefKey(ref)) =>
                /\ ~HasKey(registry', RefKey(ref))
                /\ _resolve_ref(registry, ref, RefSession(ref), now).ret = UnknownReference]_vars

\* C11: the case at hand -- with no eviction policy configured, a Release has
\* just returned true and the only handle ever stored is gone.
ReleasedLiveHandle ==
    /\ ~TtlSet /\ ~MaxSet
    /\ lastOp = "release"
    /\ ret = BoolV(TRUE)
    /\ nextId = 1
    /\ registry = <<>>

\* The key of the n-th id handed out, stored under session t.
KeyUnder(t, n) == RegistryKey(t, StrV(Uuid(n)))
HandlesUnder(t) == {n \in 0..(MaxIds - 1) : HasKey(registry, KeyUnder(t, n))}

\* C12 (ReleaseSession is exact): a ReleaseSession(s) removes every handle
\* stored under s, returns the number of handles it removed, and leaves every
\* handle stored under another session t in the table as it was.
ReleaseSessionExact ==
    [][\A s \in Sessions :
          (lastOp' = "release_session" /\ ReleaseSession(s)) =>
              /\ \A n \in HandlesUnder(s) : ~HasKey(registry', KeyUnder(s, n))
              /\ ret' = IntV(Len(registry) - Len(registry'))
              /\ ret' = IntV(Cardinality(HandlesUnder(s)))
              /\ \A t \in Sessions \ {s} : \A n \in HandlesUnder(t) :
                    /\ HasKey(registry', KeyUnder(t, n))
                    /\ EntryOf(registry', KeyUnder(t, n)) = EntryOf(registry, KeyUnder(t, n))]_vars

\* C12: the case at hand -- the table holds one handle, stored under session
\* "a:b", and ReleaseSession("a") removes it and returns 1.
ReleaseSessionReachesOtherSession ==
    /\ Len(registry) = 1
    /\ registry[1].key = KeyUnder(StrV(<<"a", ":", "b">>), 0)
    /\ HandlesUnder(Lit("a")) = {}
    /\ _release_session(registry, Lit("a")) = [ret |-> IntV(1), reg |-> <<>>]

\* C13 (session scoping): a Resolve or Release issued in session s rejects a
\* payload that names another session, never returns the object of a handle
\* stored under another session t, and leaves every such handle as it was
\* unless an eviction policy removes it.
SessionScoped ==
    [][\A ref \in Payloads, s \in Sessions :
          (lastOp' \in {"resolve", "release"} /\ (Resolve(ref, s) \/ ReleaseRef(ref, s))) =>
              /\ RefSession(ref) # s => ret' = Raise("ValueError")
              /\ \A t \in Sessions \ {s} : \A n \in HandlesUnder(t) :
                    /\ ret' # EntryOf(registry, KeyUnder(t, n)).obj
                    /\ IF HasKey(registry', KeyUnder(t, n))
                       THEN EntryOf(registry', KeyUnder(t, n)) = EntryOf(registry, KeyUnder(t, n))
                       ELSE Expired(EntryOf(registry, KeyUnder(t, n))) \/ OverMax]_vars

\* C13: the case at hand -- the table holds one handle, stored under session
\* "a:b"; a Resolve from session "a" of a payload with session_id "a" and id
\* "b:<id>" returns its object and refreshes it, and a Release removes it.
ForgedIdReachesOtherSession ==
    /\ Len(registry) = 1
    /\ registry[1].key = KeyUnder(StrV(<<"a", ":", "b">>), 0)
    /\ registry[1].last_access < now
    /\ _resolve_ref(registry, ForgedMarker(0), Lit("a"), now).ret = registry[1].obj
    /\ _resolve_ref(registry, ForgedMarker(0), Lit("a"), now).reg[1].last_access = now
    /\ _release_ref(registry, ForgedMarker(0), Lit("a"), now) = [ret |-> BoolV(TRUE), reg |-> <<>>]

----
\* ---- execute_tool: the protocol check and what follows it ----
EnvStr(text) == <<"env", text>>

\* str.lower() on the values the environment variable takes here
Lower(text) == IF text = "True" THEN "true" ELSE text

\* ALLOW_LEGACY_PROTOCOL, read from SNAKEBRIDGE_ALLOW_LEGACY_PROTOCOL (default "false")
ALLOW_LEGACY_PROTOCOL ==
    Lower(IF cfg.legacy_env = EnvUnset THEN "false" ELSE cfg.legacy_env[2])
        \in {"1", "true", "yes"}

SnakeBridgeProtocolError(details) == <<"raise", "SnakeBridgeProtocolError", details>>

\* A check that turns away a caller whose protocol_version equals the local
\* minimum.
_protocol_compatibility_strict(arguments) ==
    LET protocol_version == Or(DictGet(arguments, "protocol_version"), IntV(0))
        min_supported_version == Or(DictGet(arguments, "min_supported_version"), IntV(0))
    IN  IF protocol_version[2] <= MIN_SUPPORTED_VERSION
           \/ min_supported_version[2] > PROTOCOL_VERSION
        THEN SnakeBridgeProtocolError(DictV(<<>>))
        ELSE NoneV

\* _protocol_compatibility: NoneV, or the SnakeBridgeProtocolError raised
_protocol_compatibility(arguments) ==
    LET given_protocol == DictGet(arguments, "protocol_version")
        given_min == DictGet(arguments, "min_supported_version")
        legacy == given_protocol = NoneV /\ given_min = NoneV /\ ALLOW_LEGACY_PROTOCOL
        protocol_version == IF legacy THEN IntV(MIN_SUPPORTED_VERSION)
                            ELSE IF given_protocol = NoneV THEN IntV(0)
                            ELSE given_protocol
        min_supported_version == IF legacy THEN IntV(0)
                                 ELSE IF given_min = NoneV THEN IntV(0)
                                 ELSE given_min
    IN  IF protocol_version[2] < MIN_SUPPORTED_VERSION
           \/ min_supported_version[2] > PROTOCOL_VERSION
        THEN SnakeBridgeProtocolError(
                 DictV(<< <<Lit("caller_protocol_version"), protocol_version>>,
                          <<Lit("caller_min_supported_version"), min_supported_version>>,
                          <<Lit("adapter_protocol_version"), IntV(PROTOCOL_VERSION)>>,
                          <<Lit("adapter_min_supported_version"), IntV(MIN_SUPPORTED_VERSION)>> >>))
        ELSE NoneV

\* _is_ref_payload
_is_ref_payload(value) ==
    IF ~IsDict(value) THEN FALSE
    ELSE IF DictGet(value, "__type__") # NoneV THEN DictGet(value, "__type__") = Lit("ref")
    ELSE DictHas(value, "id") /\ (DictHas(value, "session_id") \/ DictHas(value, "ref_id"))

SupportedTools == {"snakebridge.call", "snakebridge.stream",
                   "snakebridge.release_ref", "snakebridge.release_session"}
Tools == SupportedTools \cup {"snakebridge.helpers", "snakebridge.unknown"}

\* The session id execute_tool works with: the arguments' own, else the context's.
CallSession ==
    IF IsDict(input) /\ Truthy(DictGet(input, "session_id"))
    THEN DictGet(input, "session_id") ELSE session

\* The arguments a caller sends: the protocol fields it chose to send, a ref
\* to release, and a class call with that ref as its argument.
Versions == (0 - 1)..MaxVersion
VersionFields == {NoneV} \cup {IntV(v) : v \in Versions}
Field(name, value) == IF value = NoneV THEN <<>> ELSE << <<Lit(name), value>> >>
Arguments(protocol_version, min_supported_version) ==
    DictV(Field("protocol_version", protocol_version)
          \o Field("min_supported_version", min_supported_version)
          \o << <<Lit("ref"), RefMarker(Lit("a"), 0)>>,
                <<Lit("call_type"), Lit("class")>>,
                <<Lit("python_module"), Lit("test")>>,
                <<Lit("class"), Lit("CustomObject")>>,
                <<Lit("args"), ListV(<<RefMarker(Lit("a"), 0)>>)>> >>)
CallArguments == {Arguments(p, m) : p \in VersionFields, m \in VersionFields} \cup {NoneV}
LegacyEnvs == {EnvUnset, EnvStr("false"), EnvStr("true"), EnvStr("True")}

\* The table when the call arrives: one handle, stored under session "a".
CallTable == _store_ref(<<>>, KeyUnder(Lit("a"), 0), Instance(0), 1)

CallInit ==
    /\ registry = CallTable
    /\ now = 1
    /\ nextId = 1
    /\ cfg \in [ttl_env : {EnvUnset}, max_env : {EnvUnset}, legacy_env : LegacyEnvs]
    /\ pc = "entry"
    /\ input \in CallArguments
    /\ session = Lit("a")
    /\ tool \in Tools
    /\ trace = <<>>
    /\ ExtIdle
    /\ wire = NoneV
    /\ decoded = NoneV
    /\ ret = NoneV
    /\ lastOp = NoOp
    /\ storeRun = 0
    /\ thr = [t \in Threads |-> IdleThread]
    /\ registry_lock = Unlocked

\* execute_tool, lines 780-792: the helpers tool and the unsupported tools
ToolGate ==
    /\ pc = "entry"
    /\ IF tool = "snakebridge.helpers" THEN pc' = "done" /\ ret' = DictV(<<>>)
       ELSE IF tool \notin SupportedTools THEN pc' = "done" /\ ret' = Raise("AttributeError")
       ELSE pc' = "protocol" /\ ret' = ret
    /\ UNCHANGED <<registry, now, nextId, cfg, input, session, wire, decoded,
                   lastOp, storeRun, tool, trace, raceVars, extVars>>

\* execute_tool, lines 794-795: if isinstance(arguments, dict): _protocol_compatibility(arguments)
ProtocolCheck ==
    /\ pc = "protocol"
    /\ IF IsDict(input)
       THEN /\ trace' = Append(trace, "protocol_check")
            /\ IF IsRaise(_protocol_compatibility(input))
               THEN pc' = "done" /\ ret' = _protocol_compatibility(input)
               ELSE pc' = "dispatch" /\ ret' = ret
       ELSE pc' = "dispatch" /\ UNCHANGED <<trace, ret>>
    /\ UNCHANGED <<registry, now, nextId, cfg, input, session, wire, decoded,
                   lastOp, storeRun, tool, raceVars, extVars>>

\* execute_tool, lines 807-811: snakebridge.release_ref
ReleaseRefCall ==
    /\ pc = "dispatch"
    /\ tool = "snakebridge.release_ref"
    /\ IF ~IsDict(input) \/ DictGet(input, "ref") = NoneV
       THEN ret' = Raise("ValueError") /\ UNCHANGED <<registry, trace, lastOp>>
       ELSE \E r \in {_release_ref(registry, DictGet(input, "ref"), CallSession, now)} :
               /\ registry' = r.reg
               /\ ret' = r.ret
               /\ trace' = Append(trace, "release")
               /\ lastOp' = "release"
    /\ pc' = "done"
    /\ UNCHANGED <<now, nextId, cfg, input, session, wire, decoded, storeRun, tool, raceVars, extVars>>

\* execute_tool, lines 813-814: snakebridge.release_session
ReleaseSessionCall ==
    /\ pc = "dispatch"
    /\ tool = "snakebridge.release_session"
    /\ \E r \in {_release_session(registry, CallSession)} :
          /\ registry' = r.reg
          /\ ret' = r.ret
    /\ trace' = Append(trace, "release_session")
    /\ lastOp' = "release_session"
    /\ pc' = "done"
    /\ UNCHANGED <<now, nextId, cfg, input, session, wire, decoded, storeRun, tool, raceVars, extVars>>

\* execute_tool, lines 816-837: the arguments are decoded, then their refs resolved
CallDecodeArgs ==
    /\ pc = "dispatch"
    /\ tool \in {"snakebridge.call", "snakebridge.stream"}
    /\ IF ~IsDict(input)
       THEN /\ ret' = Raise("AttributeError")
            /\ pc' = "done"
            /\ UNCHANGED <<registry, decoded, trace, lastOp>>
       ELSE \E d \in {decode(DictGet(input, "args"), CallSession, NoneV)} :
               IF IsRaise(d) \/ ~_is_ref_payload(d[2][1])
               THEN /\ decoded' = d
                    /\ ret' = IF IsRaise(d) THEN d ELSE ret
                    /\ pc' = IF IsRaise(d) THEN "done" ELSE "decoded"
                    /\ trace' = Append(trace, "decode")
                    /\ UNCHANGED <<registry, lastOp>>
               ELSE \E r \in {_resolve_ref(registry, d[2][1], CallSession, now)} :
                       /\ registry' = r.reg
                       /\ decoded' = IF IsRaise(r.ret) THEN d ELSE ListV(<<r.ret>>)
                       /\ ret' = IF IsRaise(r.ret) THEN r.ret ELSE ret
                       /\ pc' = IF IsRaise(r.ret) THEN "done" ELSE "decoded"
                       /\ trace' = trace \o <<"decode", "resolve">>
                       /\ lastOp' = "resolve"
    /\ UNCHANGED <<now, nextId, cfg, input, session, wire, storeRun, tool, raceVars, extVars>>

\* execute_tool, lines 869-874: call_type "class"
CallInvoke ==
    /\ pc = "decoded"
    /\ \E r \in {encode_result(registry, Instance(nextId), CallSession, Lit("test"), Lit("test"),
                                now, nextId)} :
          /\ registry' = r.reg
          /\ ret' = r.ret
    /\ nextId' = nextId + 1
    /\ trace' = Append(trace, "store")
    /\ lastOp' = "store"
    /\ pc' = "done"
    /\ UNCHANGED <<now, cfg, input, session, wire, decoded, storeRun, tool, raceVars, extVars>>

CallNext ==
    \/ ToolGate
    \/ ProtocolCheck
    \/ ReleaseRefCall
    \/ ReleaseSessionCall
    \/ CallDecodeArgs
    \/ CallInvoke

SpecCall == CallInit /\ [][CallNext]_vars

----
\* Claims about the protocol check, under SpecCall.
GivenProtocol == DictGet(input, "protocol_version")
GivenMin == DictGet(input, "min_supported_version")
Checked == tool \in SupportedTools /\ trace # <<>> /\ trace[1] = "protocol_check"
Rejected == pc = "done" /\ IsRaise(ret) /\ ret[2] = "SnakeBridgeProtocolError"

\* C15 (negotiation rule): when the caller supplies both numbers, the check
\* rejects the call exactly when protocol_version < MIN_SUPPORTED_VERSION or
\* min_supported_version > PROTOCOL_VERSION, and the error's details carry the
\* caller's two numbers and the adapter's two numbers.
NegotiationRule ==
    (Checked /\ GivenProtocol # NoneV /\ GivenMin # NoneV) =>
        /\ Rejected <=> (GivenProtocol[2] < MIN_SUPPORTED_VERSION
                            \/ GivenMin[2] > PROTOCOL_VERSION)
        /\ Rejected =>
              /\ DictGet(ret[3], "caller_protocol_version") = GivenProtocol
              /\ DictGet(ret[3], "caller_min_supported_version") = GivenMin
              /\ DictGet(ret[3], "adapter_protocol_version") = IntV(PROTOCOL_VERSION)
              /\ DictGet(ret[3], "adapter_min_supported_version") = IntV(MIN_SUPPORTED_VERSION)

\* C15: the case at hand -- a caller that supports nothing below version 2
\* has been turned away with the four numbers in the error.
CallerTooNewRejected ==
    /\ Checked
    /\ GivenProtocol = IntV(2)
    /\ GivenMin = IntV(2)
    /\ Rejected
    /\ DictGet(ret[3], "caller_min_supported_version") = IntV(2)
    /\ DictGet(ret[3], "adapter_protocol_version") = IntV(1)

\* C16 (legacy gating): with legacy mode disabled a call that omits either
\* protocol field is rejected with the protocol error; with legacy mode
\* enabled a call that omits both is accepted.
LegacyGating ==
    (Checked /\ IsDict(input)) =>
        /\ (~ALLOW_LEGACY_PROTOCOL /\ (GivenProtocol = NoneV \/ GivenMin = NoneV)) => Rejected
        /\ (ALLOW_LEGACY_PROTOCOL /\ GivenProtocol = NoneV /\ GivenMin = NoneV) => ~Rejected

\* C16: the case at hand -- legacy mode is off, the caller sent
\* protocol_version 1 and no min_supported_version, and the call went on.
OmittedMinAccepted ==
    /\ ~ALLOW_LEGACY_PROTOCOL
    /\ Checked
    /\ GivenProtocol = IntV(1)
    /\ GivenMin = NoneV
    /\ pc = "dispatch"

\* C17 (the protocol check comes first): in a call of one of the four tools
\* the first thing done is the protocol check, and a call the check rejects
\* has done nothing else and leaves the handle table as it was.
CheckComesFirst ==
    tool \in SupportedTools =>
        /\ trace # <<>> => trace[1] = "protocol_check"
        /\ Rejected => trace = <<"protocol_check">> /\ registry = CallTable

\* C17: the case at hand -- snakebridge.release_session was called with
\* arguments that are not a dict; no check ran and the session's handle is gone.
SessionReleasedUnchecked ==
    /\ tool = "snakebridge.release_session"
    /\ input = NoneV
    /\ pc = "done"
    /\ trace = <<"release_session">>
    /\ ret = IntV(1)
    /\ registry = <<>>

----
\* Claims about the shape of what encode_result returns, under SpecCodec.
Returned == pc = "result" /\ ~IsRaise(wire)

\* C18 (sync versus async generators): encode_result of a synchronous
\* generator returns a stream_ref marker whose stream type is 'generator';
\* encode_result of an asynchronous generator returns a plain ref marker and
\* never a stream_ref, at top level and under a key of a map.
GeneratorKinds ==
    Returned =>
        /\ input = Gen =>
              IsStreamRefMarker(wire) /\ DictGet(wire, "stream_type") = Lit("generator")
        /\ input = AsyncGen => IsRefMarker(wire) /\ ~IsStreamRefMarker(wire)
        /\ (IsDict(input) /\ DictGet(input, "stream") = Gen) =>
              IsStreamRefMarker(Or(DictGet(wire, "stream"), wire))
        /\ (IsDict(input) /\ DictGet(input, "stream") = AsyncGen) =>
              ~IsStreamRefMarker(Or(DictGet(wire, "stream"), wire))

\* C18: the case at hand -- an asynchronous generator came back as a
\* stream_ref marker of stream type 'async_generator'.
AsyncGeneratorStreamed ==
    /\ Returned
    /\ input = AsyncGen
    /\ IsStreamRefMarker(wire)
    /\ DictGet(wire, "stream_type") = Lit("async_generator")

RECURSIVE JsonSafe(_)
JsonSafe(w) ==
    CASE w[1] \in {"none", "bool", "int", "str"} -> TRUE
      [] w[1] = "float" -> w[2] = "fin"
      [] w[1] = "list" -> \A i \in 1..Len(w[2]) : JsonSafe(w[2][i])
      [] w[1] = "dict" ->
            /\ ~IsNeedsRef(w)
            /\ ~IsNeedsStreamRef(w)
            /\ \A i \in 1..Len(w[2]) : IsStr(w[2][i][1]) /\ JsonSafe(w[2][i][2])
      [] OTHER -> FALSE

\* C19 (JSON safety): what encode_result returns is made of null, booleans,
\* integers, finite floats, strings, lists and string-keyed maps at every
\* level: no NaN or infinite float (inside a tagged complex number included),
\* no map with a key that is not a string, no __needs_ref__ or
\* __needs_stream_ref__ marker.
JsonSafeResult == Returned => JsonSafe(wire)

\* C19: the case at hand -- a complex number with an infinite real part came
\* back with the raw infinite float in its "real" field.
ComplexCarriesRawInfinity ==
    /\ Returned
    /\ input = ComplexV(Inf, FloatV(0))
    /\ DictGet(wire, "__type__") = Lit("complex")
    /\ DictGet(wire, "real") = Inf

RECURSIVE SchemaCarried(_)
SchemaCarried(w) ==
    CASE w[1] = "list" -> \A i \in 1..Len(w[2]) : SchemaCarried(w[2][i])
      [] w[1] = "dict" ->
            /\ DictHas(w, "__type__") => DictHas(w, "__schema__")
            /\ \A i \in 1..Len(w[2]) : SchemaCarried(w[2][i][2])
      [] OTHER -> TRUE

\* a map that came in with a "__type__" key of its own
CallerTagged(v) == IsDict(v) /\ DictHas(v, "__type__")

\* C20 (schema version): every tagged value in what encode or encode_result
\* produced -- every map with a "__type__" field that the program put there,
\* ref and stream_ref markers included -- carries the "__schema__" field.
SchemaEverywhere ==
    (~IsRaise(wire) /\ ~CallerTagged(input)) => SchemaCarried(wire)

\* C20: the case at hand -- a generator came back as a stream_ref marker
\* that has no "__schema__" field.
StreamRefWithoutSchema ==
    /\ Returned
    /\ input = Gen
    /\ IsStreamRefMarker(wire)
    /\ ~DictHas(wire, "__schema__")

----
\* ---- the handle table under two threads: every step between two points
\* where the interpreter can switch threads is one action, and
\* `with _registry_lock:` (a threading.RLock) is what keeps them apart ----
RaceSession == Lit("a")
RaceRefs == {RefMarker(RaceSession, n) : n \in 0..(nextId - 1)}

\* A lock that never makes a thread wait.
AcquireUnguarded(t) == TRUE

\* _registry_lock.acquire() returns: the lock is free or this thread holds it
CanAcquire(t) == registry_lock.owner \in {NoThread, t}

Acquired(t) == [owner |-> t, count |-> registry_lock.count + 1]
Released ==
    [owner |-> IF registry_lock.count = 1 THEN NoThread ELSE registry_lock.owner,
     count |-> registry_lock.count - 1]

\* _instance_registry[key] of a key that is not there
DictKeyError == <<"raise", "KeyError", "key">>

RaceInit ==
    /\ registry = <<>>
    /\ now = 1
    /\ nextId = 0
    /\ cfg \in [ttl_env : TtlEnvs, max_env : MaxEnvs, legacy_env : {EnvUnset}]
    /\ ret = NoneV
    /\ lastOp = NoOp
    /\ storeRun = 0
    /\ pc = "race"
    /\ input = NoneV
    /\ session = NoneV
    /\ wire = NoneV
    /\ decoded = NoneV
    /\ thr = [t \in Threads |-> IdleThread]
    /\ registry_lock = Unlocked
    /\ tool = NoTool
    /\ trace = <<>>
    /\ ExtIdle

Local(t, next) ==
    /\ thr' = [thr EXCEPT ![t] = next]
    /\ UNCHANGED <<registry, now, nextId, cfg, codecVars, tableVars, registry_lock, callVars, extVars>>

\* a thread enters _resolve_ref(ref, session_id)
BeginResolve(t, ref) ==
    /\ thr[t].pc = "idle"
    /\ Local(t, [IdleThread EXCEPT !.op = "resolve", !.pc = "lock",
                                   !.ref = ref, !.sid = RaceSession])

\* a thread enters _release_ref(ref, session_id)
BeginRelease(t, ref) ==
    /\ thr[t].pc = "idle"
    /\ Local(t, [IdleThread EXCEPT !.op = "release", !.pc = "lock",
                                   !.ref = ref, !.sid = RaceSession])

\* a thread enters _release_session(session_id)
BeginReleaseSession(t) ==
    /\ thr[t].pc = "idle"
    /\ Local(t, [IdleThread EXCEPT !.op = "release_session", !.pc = "lock",
                                   !.sid = RaceSession])

\* a thread enters _make_ref(session_id, obj, ...): ref_id and key are made
\* before the table is touched
BeginStore(t) ==
    /\ thr[t].pc = "idle"
    /\ nextId < MaxIds
    /\ nextId' = nextId + 1
    /\ thr' = [thr EXCEPT ![t] =
                  [IdleThread EXCEPT !.op = "store", !.pc = "lock", !.sid = RaceSession,
                                     !.n = nextId, !.obj = Instance(nextId),
                                     !.key = KeyUnder(RaceSession, nextId)]]
    /\ UNCHANGED <<registry, now, cfg, codecVars, tableVars, registry_lock, callVars, extVars>>

\* `with _registry_lock:` is entered
Enter(t) ==
    /\ thr[t].pc \in {"lock", "lock_store"}
    /\ CanAcquire(t)
    /\ registry_lock' = Acquired(t)
    /\ thr' = [thr EXCEPT ![t].pc =
                  IF thr[t].pc = "lock_store" \/ thr[t].op = "release_session"
                  THEN "body" ELSE "prune"]
    /\ UNCHANGED <<registry, now, nextId, cfg, codecVars, tableVars, callVars, extVars>>

\* _prune_registry(), by the thread that is inside the lock
Prune(t) ==
    /\ thr[t].pc = "prune"
    /\ registry' = _prune_registry(registry, now)
    /\ thr' = [thr EXCEPT ![t].pc =
                  CASE thr[t].op = "resolve" -> "check"
                    [] thr[t].op = "release" -> "body"
                    [] OTHER -> "unlock_prune"]
    /\ UNCHANGED <<now, nextId, cfg, codecVars, tableVars, registry_lock, callVars, extVars>>

\* _resolve_ref: key = ...; if key not in _instance_registry: raise KeyError(...)
ResolveCheck(t) ==
    /\ thr[t].pc = "check"
    /\ LET key == KeyOf(thr[t].ref, thr[t].sid) IN
       Local(t, IF HasKey(registry, key)
                THEN [thr[t] EXCEPT !.key = key, !.pc = "read"]
                ELSE [thr[t] EXCEPT !.key = key, !.pc = "unlock",
                                    !.result = UnknownReference])

\* _resolve_ref: entry = _instance_registry[key]; _touch_entry(entry);
\* return entry.get("obj")
ResolveRead(t) ==
    /\ thr[t].pc = "read"
    /\ IF HasKey(registry, thr[t].key)
       THEN /\ registry' = _touch_entry(registry, thr[t].key, now)
            /\ thr' = [thr EXCEPT ![t].pc = "unlock",
                                  ![t].result = EntryOf(registry, thr[t].key).obj]
       ELSE /\ registry' = registry
            /\ thr' = [thr EXCEPT ![t].pc = "unlock", ![t].result = DictKeyError]
    /\ UNCHANGED <<now, nextId, cfg, codecVars, tableVars, registry_lock, callVars, extVars>>

\* _release_ref: if key in _instance_registry: del ...; return True; return False
ReleaseBody(t) ==
    /\ thr[t].pc = "body"
    /\ thr[t].op = "release"
    /\ LET key == KeyOf(thr[t].ref, thr[t].sid) IN
          /\ registry' = Without(registry, {key})
          /\ thr' = [thr EXCEPT ![t].pc = "unlock", ![t].key = key,
                                ![t].result = BoolV(HasKey(registry, key))]
    /\ UNCHANGED <<now, nextId, cfg, codecVars, tableVars, registry_lock, callVars, extVars>>

\* _release_session: the loop over list(_instance_registry.keys())
ReleaseSessionBody(t) ==
    /\ thr[t].pc = "body"
    /\ thr[t].op = "release_session"
    /\ \E r \in {_release_session(registry, thr[t].sid)} :
          /\ registry' = r.reg
          /\ thr' = [thr EXCEPT ![t].pc = "unlock", ![t].result = r.ret]
    /\ UNCHANGED <<now, nextId, cfg, codecVars, tableVars, registry_lock, callVars, extVars>>

\* _store_ref: _instance_registry[key] = {...}, with the time read before the lock
StoreBody(t) ==
    /\ thr[t].pc = "body"
    /\ thr[t].op = "store"
    /\ registry' = _store_ref(registry, thr[t].key, thr[t].obj, thr[t].at)
    /\ thr' = [thr EXCEPT ![t].pc = "unlock",
                          ![t].result = RefMarker(thr[t].sid, thr[t].n)]
    /\ UNCHANGED <<now, nextId, cfg, codecVars, tableVars, registry_lock, callVars, extVars>>

\* the `with` block is left; after the one of _prune_registry, _make_ref goes
\* on to _store_ref (now = time.time()), after any other the call returns its
\* result to the thread's caller
Leave(t) ==
    /\ thr[t].pc \in {"unlock", "unlock_prune"}
    /\ registry_lock' = Released
    /\ thr' = IF thr[t].pc = "unlock_prune"
              THEN [thr EXCEPT ![t].pc = "lock_store", ![t].at = now]
              ELSE [thr EXCEPT ![t] = IdleThread]
    /\ UNCHANGED <<registry, now, nextId, cfg, codecVars, tableVars, callVars, extVars>>

RaceNext ==
    \/ \E t \in Threads, ref \in RaceRefs : BeginResolve(t, ref)
    \/ \E t \in Threads, ref \in RaceRefs : BeginRelease(t, ref)
    \/ \E t \in Threads : BeginReleaseSession(t)
    \/ \E t \in Threads : BeginStore(t)
    \/ \E t \in Threads : Enter(t)
    \/ \E t \in Threads : Prune(t)
    \/ \E t \in Threads : ResolveCheck(t)
    \/ \E t \in Threads : ResolveRead(t)
    \/ \E t \in Threads : ReleaseBody(t)
    \/ \E t \in Threads : ReleaseSessionBody(t)
    \/ \E t \in Threads : StoreBody(t)
    \/ \E t \in Threads : Leave(t)
    \/ Tick

SpecRace == RaceInit /\ [][RaceNext]_vars

----
\* Claims about the handle table under two threads, under SpecRace.

\* C10 (Resolve racing with removal): however a Resolve(r) interleaves with
\* Release(r), ReleaseSession, Store and eviction passes of another thread, it
\* ends with the object that was stored under r or with the unknown-reference
\* KeyError, never with another handle's object or any other failure; and
\* every entry of the table is whole and holds the object stored under its key.
ResolveRaceSafe ==
    /\ \A t \in Threads :
          (thr[t].op = "resolve" /\ thr[t].pc = "unlock") =>
              thr[t].result \in {InstanceOf(thr[t].ref), UnknownReference}
    /\ \A i \in 1..Len(registry) : \A n \in 0..(MaxIds - 1) :
          registry[i].key = KeyUnder(RaceSession, n) =>
              /\ registry[i].obj = Instance(n)
              /\ registry[i].created_at <= registry[i].last_access

\* C10: the case at hand -- a Resolve of r has its object in hand while a
\* Release of the same r, begun in the other thread, waits for the lock.
ResolveHeldOffRelease ==
    /\ thr["t1"].op = "resolve"
    /\ thr["t1"].pc = "unlock"
    /\ thr["t1"].result = InstanceOf(thr["t1"].ref)
    /\ thr["t2"].op = "release"
    /\ thr["t2"].ref = thr["t1"].ref
    /\ thr["t2"].pc = "lock"
    /\ ~CanAcquire("t2")

----
\* ---- decode, called on a value that came over the wire ----
\* What a field of a wire map can hold: plain JSON, tagged values that are
\* well formed, and tagged values that are not.
TaggedTuple == _tag("tuple", << <<Lit("elements"), ListV(<<IntV(1), IntV(2)>>)>> >>)

WellFormedFields ==
    {NoneV, BoolV(TRUE), IntV(1), FloatV(3), Lit("a"), ListV(<<IntV(1), Lit("b")>>),
     DictV(<< <<Lit("k"), IntV(1)>> >>),
     TaggedTuple,
     _tag("set", << <<Lit("elements"), ListV(<<IntV(1), IntV(2), IntV(1)>>)>> >>),
     _tag("bytes", << <<Lit("data"), StrV(<<"A", "Q", "I", "=">>)>> >>),
     _tag("special_float", << <<Lit("value"), Lit("infinity")>> >>),
     _tag("date", << <<Lit("value"), StrV(<<"2", "0", "2", "4", "-", "0", "2", "-", "2", "9">>)>> >>),
     _tag("complex", << <<Lit("real"), FloatV(1)>>, <<Lit("imag"), IntV(2)>> >>),
     _tag("dict", << <<Lit("pairs"), ListV(<<ListV(<<IntV(1), Lit("one")>>)>>)>> >>),
     DictV(<< <<Lit("__type__"), Lit("newer")>>, <<Lit("x"), TaggedTuple>> >>)}

MalformedFields ==
    {DictV(<< <<Lit("__type__"), Lit("complex")>>, <<Lit("real"), FloatV(1)>> >>),
     DictV(<< <<Lit("__type__"), Lit("date")>>, <<Lit("value"), Lit("x")>> >>),
     DictV(<< <<Lit("__type__"), Lit("set")>>, <<Lit("elements"), ListV(<<ListV(<<>>)>>)>> >>)}

WireFields == WellFormedFields \cup MalformedFields

UnknownTags == {Lit("future"), IntV(7)}

UnknownTagMaps ==
    {DictV(<< <<Lit("__type__"), tag>> >>) : tag \in UnknownTags}
    \cup {DictV(<< <<Lit("__type__"), tag>>, <<Lit("f"), v>> >>) :
             tag \in UnknownTags, v \in WireFields}
    \cup {DictV(<< <<Lit("f"), v>>, <<Lit("__type__"), Lit("future")>>,
                   <<Lit("__schema__"), IntV(2)>>, <<Lit("g"), ListV(<<v>>)>> >>) :
             v \in WireFields}

WireInputs == WireFields \cup UnknownTagMaps

WireInit ==
    /\ wire \in WireInputs
    /\ session \in Sessions
    /\ pc = "wire"
    /\ input = NoneV
    /\ decoded = NoneV
    /\ registry = <<>>
    /\ now = 1
    /\ nextId = 0
    /\ cfg = DefaultEnv
    /\ ret = NoneV
    /\ lastOp = NoOp
    /\ storeRun = 0
    /\ thr = [t \in Threads |-> IdleThread]
    /\ registry_lock = Unlocked
    /\ tool = NoTool
    /\ trace = <<>>
    /\ ExtIdle

\* decode(value, session_id=session_id, context=None)
DecodeWire ==
    /\ pc = "wire"
    /\ decoded' = decode(wire, session, NoneV)
    /\ pc' = "decoded"
    /\ UNCHANGED <<registry, now, nextId, cfg, input, session, wire,
                   tableVars, raceVars, callVars, extVars>>

WireNext == DecodeWire

SpecWire == WireInit /\ [][WireNext]_vars

----
\* Claims about decode, under SpecWire.
UnknownTagged(w) ==
    /\ IsDict(w)
    /\ DictHas(w, "__type__")
    /\ DictGet(w, "__type__") \in UnknownTags

FieldDecoded(i) == decode(wire[2][i][2], session, NoneV)

\* The map decode has to return: the keys of wire in their order, each field
\* holding the decoded field value.
KeysKeptFieldsDecoded ==
    /\ IsDict(decoded)
    /\ Len(decoded[2]) = Len(wire[2])
    /\ \A i \in 1..Len(wire[2]) :
          /\ decoded[2][i][1] = wire[2][i][1]
          /\ decoded[2][i][2] = FieldDecoded(i)



UnknownTagRaised ==
    /\ pc = "decoded"
    /\ wire = DictV(<< <<Lit("__type__"), Lit("future")>>,
                       <<Lit("f"), DictV(<< <<Lit("__type__"), Lit("complex")>>,
                                            <<Lit("real"), FloatV(1)>> >>)>> >>)
    /\ decoded = Raise("KeyError")

----
\* C22 (deterministic set order): encoding two equal sets, or two equal
\* frozensets, yields the same element sequence in the wire form, whatever
\* order the sets hand out their elements in.
SetOrderDeterministic ==
    (pc = "encoded" /\ input \in SetInputs) =>
        \A other \in SetInputs :
            (other[1] = input[1] /\ PyEq(input, other)) => encode(other, 1) = wire

\* C22: the case at hand -- {1, 2.0} was encoded with elements [2.0, 1],
\* while the equal set {1.0, 2} encodes with elements [1.0, 2].
EqualSetsEncodedInDifferentOrder ==
    /\ pc = "encoded"
    /\ input = SetV(<<IntV(1), FloatV(2)>>)
    /\ PyEq(input, SetV(<<FloatV(1), IntV(2)>>))
    /\ DictGet(wire, "elements") = ListV(<<FloatV(2), IntV(1)>>)
    /\ DictGet(encode(SetV(<<FloatV(1), IntV(2)>>), 1), "elements")
          = ListV(<<FloatV(1), IntV(2)>>)

----
\* ---- a decoded callback and its invocation (_decode_callback, _callback) ----
\* context: None, or an object with or without a stub and with a session_id
NoContext == NoneV
Context(has_stub, session_id) == <<"context", has_stub, session_id>>
Contexts ==
    {NoContext, Context(TRUE, Lit("c")), Context(TRUE, NoneV), Context(FALSE, Lit("c"))}

CallbackPayload(id_key, arity) ==
    _tag("callback", << <<Lit(id_key), Lit("f")>>, <<Lit("arity"), arity>> >>)
CallbackPayloads ==
    {CallbackPayload(k, a) : k \in {"ref_id", "callback_id"},
                             a \in {NoneV, IntV(0), IntV(1), IntV(2)}}

CallbackArgs == {<<>>, <<IntV(1)>>, <<TupleV(<<IntV(1)>>), Obj1>>}

\* what the remote side answers: response.success, response.error_message and
\* the value TypeSerializer.decode_any makes of response.result
Response(success, error_message, result) == <<"response", success, error_message, result>>
CallbackError == DictV(<< <<Lit("__type__"), Lit("callback_error")>>, <<Lit("reason"), Lit("r")>> >>)
RemoteResults == {IntV(5), TaggedTuple, CallbackError, ListV(<<CallbackError>>)}
Responses ==
    {Response(TRUE, StrV(<<>>), r) : r \in RemoteResults}
    \cup {Response(FALSE, Lit("e"), r) : r \in {NoneV, IntV(5)}}

RuntimeError(message) == <<"raise", "RuntimeError", message>>

\* A stub that takes any number of arguments.
ArityIgnored(arity, args) == FALSE

\* arity is not None and len(args) != arity
ArityMismatch(arity, args) == arity # NoneV /\ IntV(Len(args)) # arity

\* context is None or not hasattr(context, "stub")
WithoutStub(context) == context = NoContext \/ ~context[2]

\* session_id or getattr(context, "session_id", None) or "default"
callback_session_id(session_id, context) ==
    Or(Or(session_id, context[3]), StrV(<<"d", "e", "f", "a", "u", "l", "t">>))

\* [encode(arg) for arg in args]
encoded_args(args) == [i \in 1..Len(args) |-> encode(args[i], 2)]

\* the ExecuteElixirToolRequest of one invocation
CallbackRequest(stub, args, session_id, context) ==
    [session_id |-> callback_session_id(session_id, context),
     tool_name |-> "snakebridge.callback",
     callback_id |-> stub[2],
     args |-> ListV(encoded_args(args))]

\* _callback after the transport answered: what it returns or raises
CallbackOutcome(response, session_id, context) ==
    IF ~response[2] THEN RuntimeError(<<"C", "a", "l", "l", "b", "a", "c", "k", " ",
                                        "f", "a", "i", "l", "e", "d", ":", " ">> \o response[3][2])
    ELSE IF IsDict(response[4]) /\ DictGet(response[4], "__type__") = Lit("callback_error")
    THEN RuntimeError(IF DictHas(response[4], "reason") THEN DictGet(response[4], "reason")[2]
                      ELSE <<"callback_error">>)
    ELSE decode(response[4], callback_session_id(session_id, context), context)

CallbackInit ==
    /\ wire \in CallbackPayloads
    /\ session \in {NoneV, Lit("a")}
    /\ cb \in {[IdleCallback EXCEPT !.pc = "decode", !.context = c, !.importable = i] :
                  c \in Contexts, i \in BOOLEAN}
    /\ mgr = NoManager
    /\ stream = NoStream
    /\ client = NoClient
    /\ pc = "callback"
    /\ input = NoneV
    /\ decoded = NoneV
    /\ registry = <<>>
    /\ now = 1
    /\ nextId = 0
    /\ cfg = DefaultEnv
    /\ ret = NoneV
    /\ lastOp = NoOp
    /\ storeRun = 0
    /\ thr = [t \in Threads |-> IdleThread]
    /\ registry_lock = Unlocked
    /\ tool = NoTool
    /\ trace = <<>>

CallbackFrame ==
    UNCHANGED <<registry, now, nextId, cfg, codecVars, tableVars, raceVars, callVars, mgr, stream, client>>

\* decode(value, session_id, context) of a callback payload
DecodeCallback ==
    /\ cb.pc = "decode"
    /\ cb' = [cb EXCEPT !.pc = "stub", !.stub = decode(wire, session, cb.context)]
    /\ CallbackFrame

\* _callback(*args), up to context.stub.ExecuteElixirTool(request)
InvokeCallback(args) ==
    /\ cb.pc = "stub"
    /\ cb' = IF ArityMismatch(cb.stub[3], args)
             THEN [cb EXCEPT !.pc = "done", !.args = args, !.result = Raise("TypeError")]
             ELSE IF WithoutStub(cb.context)
             THEN [cb EXCEPT !.pc = "done", !.args = args,
                             !.result = RuntimeError(<<"no session context">>)]
             ELSE IF ~cb.importable
             THEN [cb EXCEPT !.pc = "done", !.args = args,
                             !.result = RuntimeError(<<"bridge unavailable">>)]
             ELSE [cb EXCEPT !.pc = "awaiting", !.args = args,
                             !.sent = Append(cb.sent,
                                 CallbackRequest(cb.stub, args, session, cb.context))]
    /\ CallbackFrame

\* the transport answers, and _callback goes on to its end
TransportResponds(response) ==
    /\ cb.pc = "awaiting"
    /\ cb' = [cb EXCEPT !.pc = "done", !.response = response,
                        !.result = CallbackOutcome(response, session, cb.context)]
    /\ CallbackFrame

CallbackNext ==
    \/ DecodeCallback
    \/ \E args \in CallbackArgs : InvokeCallback(args)
    \/ \E response \in Responses : TransportResponds(response)

SpecCallback == CallbackInit /\ [][CallbackNext]_vars

----
\* Claims about the callback stub, under SpecCallback.
DeclaredArity == DictGet(wire, "arity")
Invoked == cb.pc \in {"awaiting", "done"}
RemoteFailed ==
    \/ ~cb.response[2]
    \/ IsDict(cb.response[4]) /\ DictGet(cb.response[4], "__type__") = Lit("callback_error")

\* C23 (callback stub): an invocation with a number of arguments other than
\* the declared arity, or without a context that has a stub, raises and no
\* request has been sent; an invocation that goes through sends exactly one
\* request, carrying the session id and the callback id; when the remote
\* response reports failure or its result is a callback_error payload the stub
\* raises RuntimeError, otherwise it returns the decoded remote result.
CallbackStub ==
    Invoked =>
        /\ ((DeclaredArity # NoneV /\ DeclaredArity[2] # Len(cb.args))
               \/ cb.context = NoContext \/ ~cb.context[2]) =>
              cb.pc = "done" /\ cb.sent = <<>> /\ IsRaise(cb.result)
        /\ cb.sent # <<>> =>
              /\ Len(cb.sent) = 1
              /\ cb.sent[1].session_id =
                    (IF session # NoneV THEN session
                     ELSE IF cb.context[3] # NoneV THEN cb.context[3]
                     ELSE StrV(<<"d", "e", "f", "a", "u", "l", "t">>))
              /\ cb.sent[1].callback_id = Lit("f")
        /\ (cb.pc = "done" /\ cb.sent = <<>>) => IsRaise(cb.result)
        /\ (cb.pc = "done" /\ cb.sent # <<>>) =>
              IF RemoteFailed
              THEN IsRaise(cb.result) /\ cb.result[2] = "RuntimeError"
              ELSE cb.result = decode(cb.response[4], cb.sent[1].session_id, cb.context)

\* C23: the case at hand -- a stub of arity 1 was invoked with one argument,
\* one request went out under the context's session id, and the stub returned
\* the remote tuple decoded.
CallbackReturnedRemoteResult ==
    /\ cb.pc = "done"
    /\ DeclaredArity = IntV(1)
    /\ cb.args = <<IntV(1)>>
    /\ session = NoneV
    /\ Len(cb.sent) = 1
    /\ cb.sent[1].session_id = Lit("c")
    /\ cb.response = Response(TRUE, StrV(<<>>), TaggedTuple)
    /\ cb.result = TupleV(<<IntV(1), IntV(2)>>)

----
\* C24 (TTL disabled): with the TTL at 0, its default, no handle is removed
\* because of elapsed time however far the clock advances: at any later time
\* the TTL pass removes nothing, an eviction pass removes entries only from a
\* table over its maximum size and only down to that size, and a Resolve of a
\* handle in a table within its maximum size returns the object and keeps it.
TtlDisabledNeverExpires ==
    ~TtlSet =>
        /\ _registry_limits.ttl = 0
        /\ \A t \in {now, now + FarAhead} :
              /\ TtlPass(registry, t) = registry
              /\ LET pruned == _prune_registry(registry, t) IN
                 IF MaxSet /\ Len(registry) > _registry_limits.max_size
                 THEN /\ Len(pruned) = _registry_limits.max_size
                      /\ \A i \in 1..Len(pruned) : \E j \in 1..Len(registry) : pruned[i] = registry[j]
                 ELSE pruned = registry
        /\ Len(registry) <= _registry_limits.max_size =>
              \A ref \in RefPayloads :
                  HasKey(registry, RefKey(ref)) =>
                      LET r == _resolve_ref(registry, ref, RefSession(ref), now + FarAhead) IN
                      /\ r.ret = InstanceOf(ref)
                      /\ HasKey(r.reg, RefKey(ref))

\* C24: the case at hand -- no TTL is configured, the clock has run to its
\* end, and a Resolve has just returned the object of a handle last touched
\* at time 1.
OldHandleResolvedWithoutTtl ==
    /\ ~TtlSet
    /\ now = MaxTime
    /\ lastOp = "resolve"
    /\ ret = Instance(0)
    /\ HasKey(registry, KeyUnder(Lit("a"), 0))
    /\ EntryOf(registry, KeyUnder(Lit("a"), 0)).created_at = 1

----
\* C25 (ref marker content): a ref marker that encode_result returns carries
\* an id, the session id of the call, the type name of the referenced object
\* as "type_name" and as "__type_name__", and the python_module and library
\* passed to the call; and the handle table holds the referenced object under
\* that session and id.
RefMarkerContent ==
    (Returned /\ IsRefMarker(wire)) =>
        /\ IsStr(DictGet(wire, "id"))
        /\ DictGet(wire, "session_id") = session
        /\ DictGet(wire, "type_name") = StrV(TypeName(input))
        /\ DictGet(wire, "__type_name__") = StrV(TypeName(input))
        /\ DictGet(wire, "python_module") = TestModule
        /\ DictGet(wire, "library") = TestModule
        /\ HasKey(registry, RegistryKey(session, DictGet(wire, "id")))
        /\ EntryOf(registry, RegistryKey(session, DictGet(wire, "id"))).obj = input

\* C25: the case at hand -- a CustomObject came back as a ref marker that has
\* neither a "type_name" nor a "__type_name__" field; the rest is there.
RefMarkerWithoutTypeName ==
    /\ Returned
    /\ input = Obj1
    /\ IsRefMarker(wire)
    /\ ~DictHas(wire, "type_name")
    /\ ~DictHas(wire, "__type_name__")
    /\ DictGet(wire, "session_id") = session
    /\ EntryOf(registry, RegistryKey(session, DictGet(wire, "id"))).obj = Obj1

----
\* ---- InstanceManager (snakebridge_adapter/adapter.py) under two worker
\* threads and its cleanup thread; self.instances is a sequence of
\* [id, inst, created_at, last_accessed] in insertion order ----
Workers == {"w1", "w2"}
UnknownId == 0 - 1
MaxInstanceIds == MaxInstances + 1

HasInstance(instances, id) == \E i \in 1..Len(instances) : instances[i].id = id
InstanceAt(instances, id) == instances[CHOOSE i \in 1..Len(instances) : instances[i].id = id]
WithoutInstance(instances, id) ==
    SelectSeq(instances, LAMBDA e : e.id # id)

\* A manager that evicts nothing.
_evict_none(instances) == instances

\* InstanceManager._evict_oldest: min() keeps the first of the oldest
oldest_id(instances) ==
    LET oldest == CHOOSE i \in 1..Len(instances) :
                      /\ \A j \in 1..Len(instances) :
                            instances[i].created_at <= instances[j].created_at
                      /\ \A j \in 1..(i - 1) :
                            instances[j].created_at > instances[i].created_at
    IN  instances[oldest].id

_evict_oldest(instances) ==
    IF instances = <<>> THEN instances
    ELSE WithoutInstance(instances, oldest_id(instances))

\* self.instances[instance_id] = (instance, created, accessed)
SetInstance(instances, id, inst, created, accessed) ==
    LET e == [id |-> id, inst |-> inst, created_at |-> created, last_accessed |-> accessed] IN
    IF HasInstance(instances, id)
    THEN [i \in 1..Len(instances) |-> IF instances[i].id = id THEN e ELSE instances[i]]
    ELSE Append(instances, e)

\* the deletions of _cleanup_expired, with the time it read before the lock
Unexpired(instances, t, ttl) ==
    SelectSeq(instances, LAMBDA e : ~(t - e.last_accessed > ttl))

NotFound == <<"raise", "KeyError", "not found or expired">>

\* self.lock.acquire() returns
MgrLockFree == mgr.lock = NoThread

MgrInit ==
    /\ mgr \in {[NoManager EXCEPT !.ttl = MaxTtl, !.max_instances = m] : m \in 1..MaxInstances}
    /\ cb = IdleCallback
    /\ stream = NoStream
    /\ client = NoClient
    /\ registry = <<>>
    /\ now = 1
    /\ nextId = 0
    /\ cfg = DefaultEnv
    /\ ret = NoneV
    /\ lastOp = NoOp
    /\ storeRun = 0
    /\ pc = "manager"
    /\ input = NoneV
    /\ session = NoneV
    /\ wire = NoneV
    /\ decoded = NoneV
    /\ thr = [t \in Threads |-> IdleThread]
    /\ registry_lock = Unlocked
    /\ tool = NoTool
    /\ trace = <<>>

MgrFrame ==
    UNCHANGED <<registry, now, cfg, codecVars, tableVars, raceVars, callVars, cb, stream, client>>

MgrStep(t, locals, instances, lock) ==
    mgr' = [mgr EXCEPT !.thr[t] = locals, !.instances = instances, !.lock = lock]

\* a worker enters store(instance_id, instance) with a fresh instance_id
MgrBeginStore(t) ==
    /\ mgr.thr[t].pc = "idle"
    /\ nextId < MaxInstanceIds
    /\ nextId' = nextId + 1
    /\ MgrStep(t, [IdleLocals EXCEPT !.op = "store", !.pc = "lock", !.id = nextId],
               mgr.instances, mgr.lock)
    /\ MgrFrame

\* a worker enters get(instance_id)
MgrBeginGet(t, id) ==
    /\ mgr.thr[t].pc = "idle"
    /\ MgrStep(t, [IdleLocals EXCEPT !.op = "get", !.pc = "lock", !.id = id],
               mgr.instances, mgr.lock)
    /\ UNCHANGED nextId /\ MgrFrame

\* a worker enters remove(instance_id)
MgrBeginRemove(t, id) ==
    /\ mgr.thr[t].pc = "idle"
    /\ MgrStep(t, [IdleLocals EXCEPT !.op = "remove", !.pc = "lock", !.id = id],
               mgr.instances, mgr.lock)
    /\ UNCHANGED nextId /\ MgrFrame

\* the cleanup thread enters _cleanup_expired: now = time.time()
MgrBeginCleanup ==
    /\ mgr.thr["cleanup"].pc = "idle"
    /\ MgrStep("cleanup", [IdleLocals EXCEPT !.op = "cleanup", !.pc = "lock", !.now = now],
               mgr.instances, mgr.lock)
    /\ UNCHANGED nextId /\ MgrFrame

\* `with self.lock:` is entered
MgrAcquire(t) ==
    /\ mgr.thr[t].pc = "lock"
    /\ MgrLockFree
    /\ MgrStep(t, [mgr.thr[t] EXCEPT !.pc = IF mgr.thr[t].op = "store" THEN "check"
                                            ELSE IF mgr.thr[t].op = "get" THEN "lookup"
                                            ELSE "body"],
               mgr.instances, t)
    /\ UNCHANGED nextId /\ MgrFrame

\* store: if len(self.instances) >= self.max_instances: self._evict_oldest()
StoreCheck(t) ==
    /\ mgr.thr[t].pc = "check"
    /\ IF Len(mgr.instances) >= mgr.max_instances
       THEN MgrStep(t, [mgr.thr[t] EXCEPT !.pc = "insert",
                            !.oldest_id = IF mgr.instances = <<>> THEN NoneV
                                          ELSE IntV(oldest_id(mgr.instances))],
                    _evict_oldest(mgr.instances), mgr.lock)
       ELSE MgrStep(t, [mgr.thr[t] EXCEPT !.pc = "insert"], mgr.instances, mgr.lock)
    /\ UNCHANGED nextId /\ MgrFrame

\* store: now = time.time(); self.instances[instance_id] = (instance, now, now)
StoreInsert(t) ==
    /\ mgr.thr[t].pc = "insert"
    /\ MgrStep(t, [mgr.thr[t] EXCEPT !.pc = "unlock", !.now = now],
               SetInstance(mgr.instances, mgr.thr[t].id, Instance(mgr.thr[t].id), now, now),
               mgr.lock)
    /\ UNCHANGED nextId /\ MgrFrame

\* get: if instance_id not in self.instances: raise KeyError(...)
GetLookup(t) ==
    /\ mgr.thr[t].pc = "lookup"
    /\ MgrStep(t, IF HasInstance(mgr.instances, mgr.thr[t].id)
                  THEN [mgr.thr[t] EXCEPT !.pc = "read"]
                  ELSE [mgr.thr[t] EXCEPT !.pc = "unlock", !.result = NotFound],
               mgr.instances, mgr.lock)
    /\ UNCHANGED nextId /\ MgrFrame

\* get: inst, created, _ = self.instances[instance_id];
\* self.instances[instance_id] = (inst, created, time.time()); return inst
GetRead(t) ==
    /\ mgr.thr[t].pc = "read"
    /\ IF HasInstance(mgr.instances, mgr.thr[t].id)
       THEN LET e == InstanceAt(mgr.instances, mgr.thr[t].id) IN
            MgrStep(t, [mgr.thr[t] EXCEPT !.pc = "unlock", !.last_seen = e.last_accessed,
                                          !.now = now, !.result = e.inst],
                    SetInstance(mgr.instances, e.id, e.inst, e.created_at, now), mgr.lock)
       ELSE MgrStep(t, [mgr.thr[t] EXCEPT !.pc = "unlock", !.result = DictKeyError],
                    mgr.instances, mgr.lock)
    /\ UNCHANGED nextId /\ MgrFrame

\* remove: if instance_id in self.instances: del ...; return True; return False
RemoveBody(t) ==
    /\ mgr.thr[t].pc = "body"
    /\ mgr.thr[t].op = "remove"
    /\ MgrStep(t, [mgr.thr[t] EXCEPT !.pc = "unlock",
                       !.result = BoolV(HasInstance(mgr.instances, mgr.thr[t].id))],
               WithoutInstance(mgr.instances, mgr.thr[t].id), mgr.lock)
    /\ UNCHANGED nextId /\ MgrFrame

\* _cleanup_expired: expired = [...]; for id in expired: del self.instances[id]
CleanupBody(t) ==
    /\ mgr.thr[t].pc = "body"
    /\ mgr.thr[t].op = "cleanup"
    /\ MgrStep(t, [mgr.thr[t] EXCEPT !.pc = "unlock"],
               Unexpired(mgr.instances, mgr.thr[t].now, mgr.ttl), mgr.lock)
    /\ UNCHANGED nextId /\ MgrFrame

\* the `with` block is left and the call returns
MgrRelease(t) ==
    /\ mgr.thr[t].pc = "unlock"
    /\ MgrStep(t, IdleLocals, mgr.instances, NoThread)
    /\ UNCHANGED nextId /\ MgrFrame

MgrTick ==
    /\ now < MaxTime
    /\ now' = now + 1
    /\ UNCHANGED <<registry, nextId, cfg, codecVars, tableVars, raceVars, callVars, extVars>>

MgrNext ==
    \/ \E t \in Workers : MgrBeginStore(t)
    \/ \E t \in Workers, id \in {UnknownId} \cup 0..(nextId - 1) : MgrBeginGet(t, id)
    \/ \E t \in Workers, id \in 0..(nextId - 1) : MgrBeginRemove(t, id)
    \/ MgrBeginCleanup
    \/ \E t \in MgrThreads : MgrAcquire(t)
    \/ \E t \in Workers : StoreCheck(t)
    \/ \E t \in Workers : StoreInsert(t)
    \/ \E t \in Workers : GetLookup(t)
    \/ \E t \in Workers : GetRead(t)
    \/ \E t \in Workers : RemoveBody(t)
    \/ \E t \in MgrThreads : CleanupBody(t)
    \/ \E t \in MgrThreads : MgrRelease(t)
    \/ MgrTick

SpecManager == MgrInit /\ [][MgrNext]_vars

\* ---- claims about the InstanceManager ----
GetReturning(t) == mgr.thr[t].op = "get" /\ mgr.thr[t].pc = "unlock"
GaveInstance(t) == mgr.thr[t].result = Instance(mgr.thr[t].id)
\* the time since the last access that get found, measured when get refreshed it
IdleFor(t) == mgr.thr[t].now - mgr.thr[t].last_seen

\* C26: InstanceManager.get raises KeyError for an unknown id and for an
\* instance whose time since its last access is greater than ttl_seconds; it
\* returns an instance only while that instance is unexpired, and then the
\* instance's last-access time is the time of the get.
GetHonoursTtl ==
    \A t \in Workers :
        GetReturning(t) =>
            /\ mgr.thr[t].id = UnknownId => mgr.thr[t].result = NotFound
            /\ mgr.thr[t].result \in {NotFound, Instance(mgr.thr[t].id)}
            /\ GaveInstance(t) =>
                  /\ IdleFor(t) <= mgr.ttl
                  /\ InstanceAt(mgr.instances, mgr.thr[t].id).last_accessed = mgr.thr[t].now

\* get found an instance last accessed more than ttl_seconds ago, which the
\* cleanup thread had not removed yet, returned it and refreshed it
ExpiredInstanceReturned ==
    \E t \in Workers :
        /\ GetReturning(t)
        /\ GaveInstance(t)
        /\ IdleFor(t) > mgr.ttl
        /\ InstanceAt(mgr.instances, mgr.thr[t].id).last_accessed = mgr.thr[t].now

\* the instances other than the oldest-created one, in their order
AllButOldest(instances) ==
    LET oldest == CHOOSE i \in 1..Len(instances) :
                      /\ \A j \in 1..Len(instances) :
                            instances[i].created_at <= instances[j].created_at
                      /\ \A j \in 1..(i - 1) :
                            instances[j].created_at > instances[i].created_at
    IN  [i \in 1..(Len(instances) - 1) |->
            IF i < oldest THEN instances[i] ELSE instances[i + 1]]

\* C29: for max_instances >= 1, in every state that any interleaving of
\* store, get, remove and _cleanup_expired steps reaches, the number of stored
\* instances is at most max_instances; a store that finds the manager at
\* capacity removes exactly one instance, the one created first, and inserts
\* only after that.
CapacityBound ==
    /\ Len(mgr.instances) <= mgr.max_instances
    /\ \A t \in Workers :
          /\ (mgr.thr[t].pc = "check" /\ Len(mgr.instances) >= mgr.max_instances) =>
                _evict_oldest(mgr.instances) = AllButOldest(mgr.instances)
          /\ mgr.thr[t].pc = "insert" =>
                /\ Len(mgr.instances) < mgr.max_instances
                /\ mgr.thr[t].oldest_id # NoneV =>
                      Len(mgr.instances) = mgr.max_instances - 1

\* a store found the manager full, has evicted, and holds the lock before its
\* insertion while another thread waits for the lock
StoreEvictedAtCapacity ==
    \E t \in Workers, u \in MgrThreads :
        /\ mgr.thr[t].pc = "insert"
        /\ mgr.thr[t].oldest_id # NoneV
        /\ Len(mgr.instances) = mgr.max_instances - 1
        /\ mgr.max_instances = MaxInstances
        /\ mgr.thr[u].pc = "lock"

----
\* ---- stream_next: a caller pulls the items of a stream it was handed ----
StopIteration == DictV(<< <<Lit("__type__"), Lit("stop_iteration")>> >>)

\* The stream marker with its __type__ rewritten to "ref" by the caller.
Retagged(marker) == DictV(PairsSet(marker[2], Lit("__type__"), Lit("ref")))

\* next(iterator) on an iterator that has yielded `consumed` items: the item,
\* or StopIteration raised
next(iterator, consumed) ==
    IF consumed < Len(Deref(iterator)[2]) THEN Deref(iterator)[2][consumed + 1]
    ELSE Raise("StopIteration")

\* execute_tool with call_type "stream_next", lines 840-858:
\* [ret, reg, consumed]
stream_next(reg, stream_ref_payload, session_id, consumed, t, n) ==
    IF stream_ref_payload = NoneV
    THEN [ret |-> Raise("ValueError"), reg |-> reg, consumed |-> consumed]
    ELSE LET stream_ref == decode(stream_ref_payload, session_id, NoneV) IN
         IF IsRaise(stream_ref)
         THEN [ret |-> stream_ref, reg |-> reg, consumed |-> consumed]
         ELSE LET r == _resolve_ref(reg, stream_ref, session_id, t)
                  python_module == IF IsDict(stream_ref_payload)
                                   THEN Or(DictGet(stream_ref_payload, "python_module"), StrV(<<>>))
                                   ELSE StrV(<<>>)
                  library == IF IsDict(stream_ref_payload)
                             THEN Or(DictGet(stream_ref_payload, "library"), StrV(<<>>))
                             ELSE StrV(<<>>)
              IN  IF IsRaise(r.ret)
                  THEN [ret |-> r.ret, reg |-> r.reg, consumed |-> consumed]
                  ELSE LET item == next(r.ret, consumed) IN
                       IF IsRaise(item)
                       THEN [ret |-> StopIteration, reg |-> r.reg, consumed |-> consumed]
                       ELSE LET e == encode_result(r.reg, item, session_id, python_module,
                                                   library, t, n)
                            IN  [ret |-> e.ret, reg |-> e.reg, consumed |-> consumed + 1]

StreamSources == {Gen, Iter}

\* what a caller sends as stream_ref: the marker as it got it, or retagged
StreamPayloads ==
    IF stream.marker = NoneV THEN {}
    ELSE {stream.marker, Retagged(stream.marker)}

StreamInit ==
    /\ registry = <<>>
    /\ now = 1
    /\ nextId = 0
    /\ cfg \in [ttl_env : TtlEnvs, max_env : {EnvUnset}, legacy_env : {EnvUnset}]
    /\ session \in Sessions
    /\ stream \in {[NoStream EXCEPT !.source = g] : g \in StreamSources}
    /\ cb = IdleCallback
    /\ mgr = NoManager
    /\ client = NoClient
    /\ pc = "call"
    /\ input = NoneV
    /\ wire = NoneV
    /\ decoded = NoneV
    /\ ret = NoneV
    /\ lastOp = NoOp
    /\ storeRun = 0
    /\ thr = [t \in Threads |-> IdleThread]
    /\ registry_lock = Unlocked
    /\ tool = NoTool
    /\ trace = <<>>

StreamFrame ==
    UNCHANGED <<cfg, session, input, decoded, tableVars, raceVars, callVars, cb, mgr, client>>

\* a call returns the generator or iterator: encode_result hands out the marker
StreamCall ==
    /\ pc = "call"
    /\ \E r \in {encode_result(registry, stream.source, session, TestModule, TestModule,
                               now, nextId)} :
          /\ registry' = r.reg
          /\ wire' = r.ret
          /\ stream' = [stream EXCEPT !.marker = r.ret]
    /\ nextId' = nextId + 1
    /\ pc' = "pull"
    /\ UNCHANGED now
    /\ StreamFrame

\* one stream_next call of the stream's session, with the payload the caller sends
StreamNext(payload) ==
    /\ pc = "pull"
    /\ Len(stream.pulls) < MaxPulls
    /\ \E r \in {stream_next(registry, payload, session, stream.consumed, now, nextId)} :
          /\ registry' = r.reg
          /\ wire' = r.ret
          /\ stream' = [stream EXCEPT
                           !.consumed = r.consumed,
                           !.pulls = Append(@, [stream_ref |-> payload,
                                                live |-> HasKey(_prune_registry(registry, now),
                                                                RegistryKey(session,
                                                                    DictGet(stream.marker, "id"))),
                                                before |-> stream.consumed,
                                                ret |-> r.ret])]
    /\ UNCHANGED <<now, nextId, pc>>
    /\ StreamFrame

StreamTick ==
    /\ pc = "pull"
    /\ now < MaxTime
    /\ now' = now + 1
    /\ UNCHANGED <<registry, nextId, pc, wire, stream>>
    /\ StreamFrame

StreamSpecNext ==
    \/ StreamCall
    \/ \E payload \in StreamPayloads : StreamNext(payload)
    \/ StreamTick

SpecStream == StreamInit /\ [][StreamSpecNext]_vars

\* what the iterator gives on the pull made after `before` items were consumed
Expected(before) ==
    IF before < Len(Deref(stream.source)[2]) THEN Deref(stream.source)[2][before + 1]
    ELSE StopIteration

\* C28: every stream_next call of the stream's session that passes the marker
\* of encode_result back unchanged while its handle is live returns the
\* iterator's next item, each item once and in order, and the stop_iteration
\* marker once the items are used up and on every later call.
StreamConsumption ==
    \A i \in 1..Len(stream.pulls) :
        (stream.pulls[i].stream_ref = stream.marker /\ stream.pulls[i].live) =>
            stream.pulls[i].ret = Expected(stream.pulls[i].before)

\* the unchanged marker of a live stream was refused with ValueError
UnchangedMarkerRefused ==
    \E i \in 1..Len(stream.pulls) :
        /\ stream.pulls[i].stream_ref = stream.marker
        /\ IsStreamRefMarker(stream.marker)
        /\ stream.pulls[i].live
        /\ stream.pulls[i].ret = Raise("ValueError")
        /\ stream.consumed = stream.pulls[i].before

----
\* ---- BridgeClient (snakebridge_client.py), on the ContextVar fallback
\* (_telemetry is None) ----

\* _encode_binary_parameters: the bytes map, or the TypeError raised
_encode_binary_parameters(binary_parameters) ==
    IF ~Truthy(binary_parameters) THEN DictV(<<>>)
    ELSE IF \E i \in 1..Len(binary_parameters[2]) : binary_parameters[2][i][2][1] # "bytes"
    THEN Raise("TypeError")
    ELSE binary_parameters

\* correlation_id or _get_correlation_id() or _new_correlation_id()
Correlation(correlation_id, ambient, n) == Or(correlation_id, Or(ambient, StrV(Uuid(n))))

\* _reset_correlation_id(token): the ContextVar gets back the value the token holds
_reset_correlation_id(token) == token

\* _decode_chunk_data
_decode_chunk_data(data) ==
    IF data = BytesV(<<>>) THEN DictV(<<>>)
    ELSE IF data[1] = "json" THEN data[2]
    ELSE data

\* _normalize_chunk_payload
_normalize_chunk_payload(chunk) ==
    LET chunk_data == _decode_chunk_data(chunk.data)
        payload == IF IsDict(chunk_data) THEN chunk_data[2]
                   ELSE << <<Lit("data"), chunk_data>> >>
        flagged == PairsSet(payload, Lit("is_final"), BoolV(chunk.is_final))
        with_meta == IF chunk.metadata # <<>>
                     THEN PairsSet(flagged, Lit("_metadata"), DictV(chunk.metadata))
                     ELSE flagged
    IN  DictV(IF Truthy(chunk.chunk_id)
              THEN PairsSet(with_meta, Lit("_chunk_id"), chunk.chunk_id)
              ELSE with_meta)

\* _decode_any_json
_decode_any_json(any_msg) ==
    IF any_msg = NoneV \/ any_msg = BytesV(<<>>) THEN NoneV
    ELSE IF any_msg[1] = "json" THEN any_msg[2]
    ELSE any_msg

\* A generator that goes on after the final chunk.
NeverFinal(chunk) == FALSE

\* if chunk.is_final: break
IsFinal(chunk) == chunk.is_final

\* the chunk a server sends in place i
Chunk(i, is_final) ==
    [chunk_id |-> IF i = 2 THEN StrV(<<>>) ELSE StrV(<<"c", DigitChar(i)>>),
     data |-> IF i = 3 THEN BytesV(<<255>>)
              ELSE IF i = 4 THEN BytesV(<<>>)
              ELSE <<"json", DictV(<< <<Lit("progress"), IntV(i)>> >>)>>,
     is_final |-> is_final,
     metadata |-> IF i = 1 THEN << <<Lit("k"), Lit("v")>> >> ELSE <<>>]

ServerStreams ==
    UNION {{[i \in 1..n |-> Chunk(i, f[i])] : f \in [1..n -> BOOLEAN]} : n \in 0..MaxChunks}

CorrelationIds == {NoneV, Lit("cid")}
BinaryParameters == {NoneV,
                     DictV(<< <<Lit("blob"), BytesV(<<0, 1>>)>> >>),
                     DictV(<< <<Lit("bad"), Lit("not-bytes")>> >>)}
RpcError == Raise("RpcError")
UnaryOutcomes == {RpcError,
                  Response(FALSE, Lit("boom"), NoneV),
                  Response(FALSE, StrV(<<>>), NoneV),
                  Response(TRUE, StrV(<<>>), <<"json", Lit("ok")>>)}
Closed == <<"closed">>

\* BridgeClient.execute_tool: the call as the client record it leaves
execute_tool(c, correlation_id, binary_parameters, outcome, n) ==
    LET correlation == Correlation(correlation_id, c.ambient, n)
        token == c.ambient
        encoded == _encode_binary_parameters(binary_parameters)
        sent == ~IsRaise(encoded)
        result == IF ~sent THEN encoded
                  ELSE IF outcome = RpcError THEN RpcError
                  ELSE IF ~outcome[2] THEN RuntimeError(Or(outcome[3], Lit("ExecuteTool failed")))
                  ELSE _decode_any_json(outcome[4])
    IN  [c EXCEPT !.pc = "done", !.op = "execute_tool", !.before = c.ambient,
                  !.correlation_id = correlation_id, !.binary_parameters = binary_parameters,
                  !.token = token,
                  !.rpcs = IF sent THEN <<"ExecuteTool">> ELSE <<>>,
                  !.ambient = _reset_correlation_id(token),
                  !.result = result]

\* execute_streaming_tool's finally block, the call having been made
Finish(c, result) ==
    [c EXCEPT !.pc = "done", !.cancelled = TRUE,
              !.ambient = _reset_correlation_id(c.token), !.result = result]

\* `for chunk in call:` asks the call for its next chunk
Advance(c) ==
    IF c.fails_at = c.position + 1 THEN Finish(c, RpcError)
    ELSE IF c.position + 1 > Len(c.server) THEN Finish(c, Raise("StopIteration"))
    ELSE [c EXCEPT !.position = c.position + 1, !.pc = "suspended",
                   !.yielded = Append(@, _normalize_chunk_payload(c.server[c.position + 1])),
                   !.result = _normalize_chunk_payload(c.server[c.position + 1])]

\* the generator's body from its start to its first yield or its end
Start(c, n) ==
    LET correlation == Correlation(c.correlation_id, c.ambient, n)
        set == [c EXCEPT !.token = c.ambient, !.ambient = correlation]
        encoded == _encode_binary_parameters(c.binary_parameters)
    IN  IF IsRaise(encoded) THEN [set EXCEPT !.pc = "done", !.result = encoded]
        ELSE Advance([set EXCEPT !.rpcs = Append(@, "ExecuteStreamingTool")])

\* the generator resumes after a yield
Resume(c) ==
    IF IsFinal(c.server[c.position]) THEN Finish(c, Raise("StopIteration"))
    ELSE Advance(c)

ClientInit ==
    /\ client \in {[NoClient EXCEPT !.ambient = a] : a \in {NoneV, Lit("amb")}}
    /\ cb = IdleCallback
    /\ mgr = NoManager
    /\ stream = NoStream
    /\ registry = <<>>
    /\ now = 1
    /\ nextId = 0
    /\ cfg = DefaultEnv
    /\ pc = "client"
    /\ input = NoneV
    /\ session = NoneV
    /\ wire = NoneV
    /\ decoded = NoneV
    /\ ret = NoneV
    /\ lastOp = NoOp
    /\ storeRun = 0
    /\ thr = [t \in Threads |-> IdleThread]
    /\ registry_lock = Unlocked
    /\ tool = NoTool
    /\ trace = <<>>

ClientFrame ==
    UNCHANGED <<registry, now, cfg, codecVars, tableVars, raceVars, callVars, cb, mgr, stream>>

\* a call of BridgeClient.execute_tool, from entry to return or raise
ExecuteTool(correlation_id, binary_parameters, outcome) ==
    /\ client.pc = "idle"
    /\ client.calls < MaxCalls
    /\ client' = execute_tool(client, correlation_id, binary_parameters, outcome, nextId)
    /\ nextId' = nextId + 1
    /\ ClientFrame

\* a call of BridgeClient.execute_streaming_tool: a generator that has not started
ExecuteStreamingTool(correlation_id, binary_parameters, server, fails_at) ==
    /\ client.pc = "idle"
    /\ client.calls < MaxCalls
    /\ client' = [client EXCEPT !.pc = "created", !.op = "execute_streaming_tool",
                                !.before = client.ambient,
                                !.correlation_id = correlation_id,
                                !.binary_parameters = binary_parameters,
                                !.server = server, !.fails_at = fails_at]
    /\ UNCHANGED nextId
    /\ ClientFrame

\* the consumer calls next() on the generator
GenNext ==
    /\ client.pc \in {"created", "suspended"}
    /\ client' = IF client.pc = "created" THEN Start(client, nextId) ELSE Resume(client)
    /\ nextId' = IF client.pc = "created" THEN nextId + 1 ELSE nextId
    /\ ClientFrame

\* the consumer closes the generator, or drops it
GenClose ==
    /\ client.pc \in {"created", "suspended"}
    /\ client' = IF client.pc = "created"
                 THEN [client EXCEPT !.pc = "done", !.result = Closed]
                 ELSE Finish(client, Closed)
    /\ UNCHANGED nextId
    /\ ClientFrame

\* the caller goes on to its next call
ClientReturn ==
    /\ client.pc = "done"
    /\ client' = [NoClient EXCEPT !.ambient = client.ambient, !.calls = client.calls + 1]
    /\ UNCHANGED nextId
    /\ ClientFrame

ClientNext ==
    \/ \E c \in CorrelationIds, b \in BinaryParameters, o \in UnaryOutcomes : ExecuteTool(c, b, o)
    \/ \E c \in CorrelationIds, b \in BinaryParameters, s \in ServerStreams :
          \E f \in 0..(Len(s) + 1) : ExecuteStreamingTool(c, b, s, f)
    \/ GenNext
    \/ GenClose
    \/ ClientReturn

SpecClient == ClientInit /\ [][ClientNext]_vars

\* ---- claims about the BridgeClient ----
Streaming == client.op = "execute_streaming_tool"
Finished == client.pc = "done"
Exhausted == Finished /\ client.result = Raise("StopIteration")
\* no chunk before place i has its is_final flag set
NoFinalBefore(i) == \A j \in 1..(i - 1) : ~client.server[j].is_final

\* C27: execute_streaming_tool yields the server's chunks in order, up to and
\* including the first one whose is_final flag is set and none after it even
\* if the server sent more; it sends the streaming RPC only, never the unary
\* one; and once iteration has ended the underlying call has been cancelled.
StreamingStopsOnFinal ==
    Streaming =>
        /\ Len(client.yielded) <= Len(client.server)
        /\ \A i \in 1..Len(client.yielded) :
              /\ client.yielded[i] = _normalize_chunk_payload(client.server[i])
              /\ NoFinalBefore(i)
        /\ Exhausted =>
              \/ Len(client.yielded) = Len(client.server)
              \/ client.server[Len(client.yielded)].is_final
        /\ client.rpcs \in {<<>>, <<"ExecuteStreamingTool">>}
        /\ (Finished /\ client.rpcs # <<>>) => client.cancelled

\* the server sent a chunk after its final one; the generator yielded through
\* the final chunk, ended, and the call was cancelled
StoppedBeforeExtraChunk ==
    /\ Streaming
    /\ Exhausted
    /\ Len(client.server) = MaxChunks
    /\ client.server[MaxChunks - 1].is_final
    /\ Len(client.yielded) = MaxChunks - 1
    /\ client.cancelled

\* C30: when execute_tool or execute_streaming_tool has finished, by
\* returning, by exhausting or closing the stream or by raising, the ambient
\* correlation id is the one from before the call, and a call whose binary
\* parameter was rejected with TypeError sent no RPC.
CorrelationRestored ==
    Finished =>
        /\ client.ambient = client.before
        /\ client.result = Raise("TypeError") => client.rpcs = <<>>

\* execute_streaming_tool raised TypeError for a binary parameter and left the
\* call's correlation id as the ambient one
CorrelationLeftSet ==
    /\ Streaming
    /\ Finished
    /\ client.result = Raise("TypeError")
    /\ client.rpcs = <<>>
    /\ client.before = NoneV
    /\ client.ambient = Lit("cid")

====
